---------------------------- MODULE Spec2Model ----------------------------
(***************************************************************************)
(* A model of the USB device core of zircon (system/dev/usb/usb-bus and    *)
(* system/dev/usb/usb-composite).                                          *)
(*                                                                         *)
(* The module holds three state machines that share no state:              *)
(*   - the request relay: usb_device_request_queue, request_complete,      *)
(*     callback_thread and stop_callback_thread        (SpecRelay);        *)
(*   - the control transfer engine: usb_device_control (SpecControl);      *)
(*   - the interface registry: usb_device_add_interfaces,                  *)
(*     usb_device_claim_interface, usb_device_set_configuration,           *)
(*     usb_device_remove_interfaces, usb_device_set_interface              *)
(*                                                       (SpecRegistry).   *)
(* Each specification starts the two machines it does not run in their     *)
(* idle state and leaves them unchanged.                                   *)
(***************************************************************************)
EXTENDS Integers, Sequences, FiniteSets, TLC

\* ------------------------------------------------------------------------
\* Bounds of the model
\* ------------------------------------------------------------------------

\* usb requests the clients of the relay own
NumReqs == 2
\* calls of usb_device_request_queue in one behaviour
MaxSubmits == 2
\* calls of usb_device_control in one behaviour
MaxControlCalls == 2
\* calls of usb_device_set_configuration in one behaviour
MaxSetConfigs == 1
\* descriptor items after the header of a configuration that is walked
MaxItems == 4

\* ------------------------------------------------------------------------
\* State
\* ------------------------------------------------------------------------

VARIABLES
    \* --- request relay (usb_device_t, usb-device.h:63-71) ---
    reqs,                        \* usb_request_t fields of each client request
    hci_queue,                   \* requests the HCI driver holds
    completed_reqs,              \* dev->completed_reqs
    callback_thread_completion,  \* dev->callback_thread_completion (signaled?)
    callback_thread_stop,        \* dev->callback_thread_stop
    callback_lock,               \* dev->callback_lock: the thread that holds it
    cb_pc,                       \* callback_thread: position
    cb_done,                     \* callback_thread: local done
    temp_list,                   \* callback_thread: local temp_list
    hci_pc,                      \* HCI main thread: position in request_complete
    hci_req,                     \* HCI main thread: request being completed
    stop_pc,                     \* stop_callback_thread: position
    submits,                     \* calls of usb_device_request_queue so far
    client_set,                  \* callback and cookie the client set before submitting
    hci_log,                     \* requests, in the order the HCI called request_complete
    cb_log,                      \* client callbacks invoked: request, callback, cookie, thread
    \* --- control transfer engine (usb_device_control) ---
    ctl_pc,                      \* usb_device_control: position of the calling thread
    ctl_length,                  \* usb_device_control: length
    ctl_timeout,                 \* usb_device_control: timeout, "finite" or "infinite"
    ctl_req,                     \* usb_device_control: req
    ctl_status,                  \* usb_device_control: status
    completion,                  \* usb_device_control: local completion (signaled?)
    free_reqs,                   \* dev->free_reqs
    released,                    \* requests given to usb_request_release
    hci_ep0,                     \* requests the HCI driver holds on endpoint 0
    hci_cancelled,               \* requests of hci_ep0 that cancel_all has cancelled
    response_status,             \* req->response.status of each control request
    next_req,                    \* the next request usb_request_alloc returns
    ctl_calls,                   \* calls of usb_device_control so far
    ctl_timed_out,               \* this call's first wait returned ZX_ERR_TIMED_OUT
    ctl_cancels,                 \* this call's calls of usb_hci_cancel_all
    ctl_delivered,               \* the HCI has called this call's completion callback
    dangling_complete,           \* the HCI completed a request that was released before
    \* --- interface registry (usb_device_t, usb-device.h:47-59) ---
    current_config_index,        \* dev->current_config_index
    interface_statuses,          \* dev->interface_statuses, indexed from 0
    children,                    \* dev->children, head first
    interface_mutex,             \* dev->interface_mutex: the thread that holds it
    thr,                         \* the threads inside the registry's functions
    next_child,                  \* the next child device the framework creates
    remove_count,                \* calls of device_remove on each child device
    set_configs,                 \* calls of usb_device_set_configuration so far
    claim_ok,                    \* interfaces claimed with ZX_OK since the last reset
    claim_ret,                   \* the last call of usb_device_claim_interface
    device_desc,                 \* dev->device_desc, read from the device
    walker,                      \* one run of usb_device_add_interfaces over a configuration
    adder,                       \* one run of usb_device_add or usb_composite_bind, and the teardown
    ioctl                        \* one call of usb_device_ioctl

relayVars == <<reqs, hci_queue, completed_reqs, callback_thread_completion,
               callback_thread_stop, callback_lock, cb_pc, cb_done, temp_list,
               hci_pc, hci_req, stop_pc, submits, client_set, hci_log, cb_log>>

controlVars == <<ctl_pc, ctl_length, ctl_timeout, ctl_req, ctl_status, completion,
                 free_reqs, released, hci_ep0, hci_cancelled, response_status,
                 next_req, ctl_calls, ctl_timed_out, ctl_cancels, ctl_delivered,
                 dangling_complete>>

registryVars == <<current_config_index, interface_statuses, children,
                  interface_mutex, thr, next_child, remove_count, set_configs,
                  claim_ok, claim_ret>>

vars == <<relayVars, controlVars, registryVars, device_desc, walker, adder, ioctl>>

\* what the relay's actions leave alone
notRelayVars == <<controlVars, registryVars, device_desc, walker, adder, ioctl>>
\* what usb_device_control's actions leave alone
notControlVars == <<relayVars, registryVars, device_desc, walker, adder, ioctl>>
\* what the registry's actions leave alone
notRegistryVars == <<relayVars, controlVars, device_desc, walker, adder, ioctl>>
\* what a walk of a configuration on its own leaves alone
notWalkerVars == <<relayVars, controlVars, registryVars, device_desc, adder, ioctl>>
\* what a call of usb_device_ioctl that reads leaves alone
notIoctlVars == <<relayVars, controlVars, registryVars, device_desc, walker, adder>>
\* what device creation and teardown on their own leave alone
notAdderVars == <<relayVars, controlVars, registryVars, device_desc, walker, ioctl>>

\* ------------------------------------------------------------------------
\* Helpers
\* ------------------------------------------------------------------------

Range(s) == {s[i] : i \in 1..Len(s)}

IsPrefix(s, t) == Len(s) <= Len(t) /\ \A i \in 1..Len(s) : s[i] = t[i]

RECURSIVE Count(_, _)
Count(s, x) == IF s = << >> THEN 0
               ELSE (IF Head(s) = x THEN 1 ELSE 0) + Count(Tail(s), x)

NoThread == "none"
NoReq == 0

\* ------------------------------------------------------------------------
\* Request relay
\* ------------------------------------------------------------------------

Requests == 1..NumReqs

\* completion callbacks of the relay's clients, each with the cookie its
\* client passes along
ClientCallbacks == {"client_cb_a", "client_cb_b"}
ClientCookie(cb) == IF cb = "client_cb_a" THEN "client_cookie_a" ELSE "client_cookie_b"

\* list.h
list_add_tail(list, item) == Append(list, item)
list_add_head(list, item) == <<item>> \o list

\* usb_device_request_queue_fields with line 614 left out: the request goes to
\* the HCI driver with the client's own callback
usb_device_request_queue_fields_keep_cb(r) ==
    [r EXCEPT !.saved_complete_cb = r.complete_cb,
              !.saved_cookie = r.cookie]

\* usb_device_request_queue: the callback and cookie fields of the request as
\* the HCI driver receives them (usb-device.c:611-616)
usb_device_request_queue_fields(r) ==
    [r EXCEPT !.saved_complete_cb = r.complete_cb,
              !.saved_cookie = r.cookie,
              !.complete_cb = "request_complete",
              !.cookie = "dev"]

\* A client fills in its callback and cookie and calls usb_device_request_queue,
\* which hands the request to the HCI driver (usb-device.c:605-619).
usb_device_request_queue(r, cb, ck) ==
    /\ submits < MaxSubmits
    /\ r \notin hci_queue
    /\ r \notin Range(completed_reqs) \cup Range(temp_list)
    /\ hci_req # r
    \* (the client holds the request: it is not queued, not being completed
    \* and not waiting for its callback)
    /\ submits' = submits + 1
    /\ client_set' = [client_set EXCEPT ![r] = [cb |-> cb, cookie |-> ck]]
    /\ reqs' = [reqs EXCEPT ![r] = usb_device_request_queue_fields(
                                       [@ EXCEPT !.complete_cb = cb, !.cookie = ck])]
    /\ hci_queue' = hci_queue \cup {r}
    /\ UNCHANGED <<completed_reqs, callback_thread_completion, callback_thread_stop,
                   callback_lock, cb_pc, cb_done, temp_list, hci_pc, hci_req,
                   stop_pc, hci_log, cb_log>>
    /\ UNCHANGED notRelayVars

\* usb_request_complete calls the request's complete_cb with its cookie: the
\* call as it is logged, with the thread it runs on and with the callback and
\* cookie the client had set when it submitted the request
usb_request_complete(r, thread) ==
    [req |-> r, cb |-> reqs[r].complete_cb, cookie |-> reqs[r].cookie,
     thread |-> thread, set_cb |-> client_set[r].cb,
     set_cookie |-> client_set[r].cookie]

\* The HCI driver completes a request on its main thread: it calls the
\* request's complete_cb with the request's cookie.  That is request_complete
\* for a request that came through usb_device_request_queue.
hci_complete(r) ==
    /\ hci_pc = "idle"
    /\ r \in hci_queue
    /\ hci_queue' = hci_queue \ {r}
    /\ IF reqs[r].complete_cb = "request_complete"
       THEN /\ hci_pc' = "lock"
            /\ hci_req' = r
            /\ hci_log' = Append(hci_log, r)
            /\ UNCHANGED cb_log
       ELSE /\ cb_log' = Append(cb_log, usb_request_complete(r, "hci"))
            /\ UNCHANGED <<hci_pc, hci_req, hci_log>>
    /\ UNCHANGED <<reqs, completed_reqs, callback_thread_completion,
                   callback_thread_stop, callback_lock, cb_pc, cb_done, temp_list,
                   stop_pc, submits, client_set>>
    /\ UNCHANGED notRelayVars

\* request_complete: mtx_lock(&dev->callback_lock) (usb-device.c:89)
request_complete_lock ==
    /\ hci_pc = "lock"
    /\ callback_lock = NoThread
    /\ callback_lock' = "hci"
    /\ hci_pc' = "push"
    /\ UNCHANGED <<reqs, hci_queue, completed_reqs, callback_thread_completion,
                   callback_thread_stop, cb_pc, cb_done, temp_list, hci_req,
                   stop_pc, submits, client_set, hci_log, cb_log>>
    /\ UNCHANGED notRelayVars

\* request_complete_restore with line 92 left out: the cookie stays the device
request_complete_restore_cb_only(r) ==
    [r EXCEPT !.complete_cb = r.saved_complete_cb]

\* request_complete: the callback and cookie of the request after line 92
request_complete_restore(r) ==
    [r EXCEPT !.complete_cb = r.saved_complete_cb, !.cookie = r.saved_cookie]

\* request_complete_push with list_add_head in place of list_add_tail
request_complete_push_head ==
    /\ hci_pc = "push"
    /\ callback_lock = "hci"
    /\ reqs' = [reqs EXCEPT ![hci_req] = request_complete_restore(@)]
    /\ completed_reqs' = list_add_head(completed_reqs, hci_req)
    /\ callback_lock' = NoThread
    /\ hci_pc' = "signal"
    /\ hci_req' = NoReq
    /\ UNCHANGED <<hci_queue, callback_thread_completion, callback_thread_stop,
                   cb_pc, cb_done, temp_list, stop_pc, submits,
                   client_set, hci_log, cb_log>>
    /\ UNCHANGED notRelayVars

\* request_complete: restore the client's callback, list_add_tail and
\* mtx_unlock; the function does not touch the request again
\* (usb-device.c:91-94)
request_complete_push ==
    /\ hci_pc = "push"
    /\ callback_lock = "hci"
    /\ reqs' = [reqs EXCEPT ![hci_req] = request_complete_restore(@)]
    /\ completed_reqs' = list_add_tail(completed_reqs, hci_req)
    /\ callback_lock' = NoThread
    /\ hci_pc' = "signal"
    /\ hci_req' = NoReq
    /\ UNCHANGED <<hci_queue, callback_thread_completion, callback_thread_stop,
                   cb_pc, cb_done, temp_list, stop_pc, submits,
                   client_set, hci_log, cb_log>>
    /\ UNCHANGED notRelayVars

\* request_complete_signal with the sync_completion_signal left out
request_complete_no_signal ==
    /\ hci_pc = "signal"
    /\ hci_pc' = "idle"
    /\ UNCHANGED <<reqs, hci_queue, completed_reqs, callback_thread_completion,
                   callback_thread_stop, callback_lock, cb_pc, cb_done, temp_list,
                   hci_req, stop_pc, submits, client_set, hci_log, cb_log>>
    /\ UNCHANGED notRelayVars

\* request_complete: sync_completion_signal (usb-device.c:95)
request_complete_signal ==
    /\ hci_pc = "signal"
    /\ callback_thread_completion' = TRUE
    /\ hci_pc' = "idle"
    /\ UNCHANGED <<reqs, hci_queue, completed_reqs, callback_thread_stop,
                   callback_lock, cb_pc, cb_done, temp_list, hci_req, stop_pc,
                   submits, client_set, hci_log, cb_log>>
    /\ UNCHANGED notRelayVars

\* callback_thread: sync_completion_wait returns once the completion is
\* signaled; it does not reset it (usb-device.c:47)
callback_thread_wait ==
    /\ cb_pc = "wait"
    /\ callback_thread_completion
    /\ cb_pc' = "lock"
    /\ UNCHANGED <<reqs, hci_queue, completed_reqs, callback_thread_completion,
                   callback_thread_stop, callback_lock, cb_done, temp_list, hci_pc,
                   hci_req, stop_pc, submits, client_set, hci_log, cb_log>>
    /\ UNCHANGED notRelayVars

\* callback_thread: mtx_lock (usb-device.c:49)
callback_thread_lock ==
    /\ cb_pc = "lock"
    /\ callback_lock = NoThread
    /\ callback_lock' = "callback_thread"
    /\ cb_pc' = "reset"
    /\ UNCHANGED <<reqs, hci_queue, completed_reqs, callback_thread_completion,
                   callback_thread_stop, cb_done, temp_list, hci_pc, hci_req,
                   stop_pc, submits, client_set, hci_log, cb_log>>
    /\ UNCHANGED notRelayVars

\* callback_thread: sync_completion_reset (usb-device.c:51)
callback_thread_reset ==
    /\ cb_pc = "reset"
    /\ callback_thread_completion' = FALSE
    /\ cb_pc' = "snapshot"
    /\ UNCHANGED <<reqs, hci_queue, completed_reqs, callback_thread_stop,
                   callback_lock, cb_done, temp_list, hci_pc, hci_req, stop_pc,
                   submits, client_set, hci_log, cb_log>>
    /\ UNCHANGED notRelayVars

\* callback_thread that moves the list and goes on to the callbacks without
\* the mtx_unlock
callback_thread_snapshot_keeps_lock ==
    /\ cb_pc = "snapshot"
    /\ callback_lock = "callback_thread"
    /\ cb_done' = callback_thread_stop
    /\ temp_list' = completed_reqs
    /\ completed_reqs' = << >>
    /\ cb_pc' = "drain"
    /\ UNCHANGED <<reqs, hci_queue, callback_thread_completion,
                   callback_thread_stop, callback_lock, hci_pc, hci_req,
                   stop_pc, submits, client_set, hci_log, cb_log>>
    /\ UNCHANGED notRelayVars

\* callback_thread: done = stop, list_move to temp_list, mtx_unlock
\* (usb-device.c:52-58)
callback_thread_snapshot ==
    /\ cb_pc = "snapshot"
    /\ callback_lock = "callback_thread"
    /\ cb_done' = callback_thread_stop
    /\ temp_list' = completed_reqs
    /\ completed_reqs' = << >>
    /\ callback_lock' = NoThread
    /\ cb_pc' = "drain"
    /\ UNCHANGED <<reqs, hci_queue, callback_thread_completion,
                   callback_thread_stop, hci_pc, hci_req, stop_pc, submits,
                   client_set, hci_log, cb_log>>
    /\ UNCHANGED notRelayVars

\* callback_thread: list_remove_head and usb_request_complete, which calls the
\* request's complete_cb with its cookie (usb-device.c:62-64)
callback_thread_complete ==
    /\ cb_pc = "drain"
    /\ temp_list # << >>
    /\ cb_log' = Append(cb_log, usb_request_complete(Head(temp_list), "callback_thread"))
    /\ temp_list' = Tail(temp_list)
    /\ UNCHANGED <<reqs, hci_queue, completed_reqs, callback_thread_completion,
                   callback_thread_stop, callback_lock, cb_pc, cb_done, hci_pc,
                   hci_req, stop_pc, submits, client_set, hci_log>>
    /\ UNCHANGED notRelayVars

\* callback_thread: the temp list is drained; loop or return (usb-device.c:45,67)
callback_thread_loop ==
    /\ cb_pc = "drain"
    /\ temp_list = << >>
    /\ cb_pc' = IF cb_done THEN "exited" ELSE "wait"
    /\ UNCHANGED <<reqs, hci_queue, completed_reqs, callback_thread_completion,
                   callback_thread_stop, callback_lock, cb_done, temp_list, hci_pc,
                   hci_req, stop_pc, submits, client_set, hci_log, cb_log>>
    /\ UNCHANGED notRelayVars

\* stop_callback_thread: mtx_lock (usb-device.c:77)
stop_callback_thread_lock ==
    /\ stop_pc = "idle"
    /\ callback_lock = NoThread
    /\ callback_lock' = "stop"
    /\ stop_pc' = "set"
    /\ UNCHANGED <<reqs, hci_queue, completed_reqs, callback_thread_completion,
                   callback_thread_stop, cb_pc, cb_done, temp_list, hci_pc,
                   hci_req, submits, client_set, hci_log, cb_log>>
    /\ UNCHANGED notRelayVars

\* stop_callback_thread: set the flag and mtx_unlock (usb-device.c:78-79)
stop_callback_thread_set ==
    /\ stop_pc = "set"
    /\ callback_lock = "stop"
    /\ callback_thread_stop' = TRUE
    /\ callback_lock' = NoThread
    /\ stop_pc' = "signal"
    /\ UNCHANGED <<reqs, hci_queue, completed_reqs, callback_thread_completion,
                   cb_pc, cb_done, temp_list, hci_pc, hci_req, submits,
                   client_set, hci_log, cb_log>>
    /\ UNCHANGED notRelayVars

\* stop_callback_thread: sync_completion_signal (usb-device.c:81)
stop_callback_thread_signal ==
    /\ stop_pc = "signal"
    /\ callback_thread_completion' = TRUE
    /\ stop_pc' = "join"
    /\ UNCHANGED <<reqs, hci_queue, completed_reqs, callback_thread_stop,
                   callback_lock, cb_pc, cb_done, temp_list, hci_pc, hci_req,
                   submits, client_set, hci_log, cb_log>>
    /\ UNCHANGED notRelayVars

\* stop_callback_thread: thrd_join returns once callback_thread has returned
\* (usb-device.c:82)
stop_callback_thread_join ==
    /\ stop_pc = "join"
    /\ cb_pc = "exited"
    /\ stop_pc' = "joined"
    /\ UNCHANGED <<reqs, hci_queue, completed_reqs, callback_thread_completion,
                   callback_thread_stop, callback_lock, cb_pc, cb_done, temp_list,
                   hci_pc, hci_req, submits, client_set, hci_log, cb_log>>
    /\ UNCHANGED notRelayVars

\* ------------------------------------------------------------------------
\* Control transfer engine
\* ------------------------------------------------------------------------

\* usb_device_control is in a call: between its entry and its return
ControlActive == ctl_pc \notin {"idle", "returned"}

\* a request that was pooled or released is still held by the HCI driver:
\* from here on the HCI driver works on freed memory
FreedWhileHeld == (free_reqs \cup released) \cap hci_ep0 # {}

\* usb_device_control up to usb_hci_request_queue: take a request from the
\* pool (length 0) or allocate one, fill it in, install usb_control_complete
\* with the local completion as cookie, queue it (usb-device.c:539-573)
usb_device_control_queue(length, timeout) ==
    /\ ctl_pc \in {"idle", "returned"}
    /\ ctl_calls < MaxControlCalls
    /\ ~FreedWhileHeld
    /\ ctl_calls' = ctl_calls + 1
    /\ ctl_length' = length
    /\ ctl_timeout' = timeout
    /\ ctl_timed_out' = FALSE
    /\ ctl_cancels' = 0
    /\ ctl_delivered' = FALSE
    /\ completion' = FALSE
    /\ ctl_status' = "none"
    /\ ctl_pc' = "wait"
    /\ IF length = 0 /\ free_reqs # {}
       THEN /\ \E r \in free_reqs :
                 /\ ctl_req' = r
                 /\ free_reqs' = free_reqs \ {r}
                 /\ hci_ep0' = hci_ep0 \cup {r}
            /\ UNCHANGED next_req
       ELSE /\ ctl_req' = next_req
            /\ next_req' = next_req + 1
            /\ hci_ep0' = hci_ep0 \cup {next_req}
            /\ UNCHANGED free_reqs
    /\ UNCHANGED <<released, hci_cancelled, response_status, dangling_complete>>
    /\ UNCHANGED notControlVars

\* usb_device_control: usb_request_alloc fails and the function returns its
\* status (usb-device.c:545-550)
usb_device_control_no_memory(length, timeout) ==
    /\ ctl_pc \in {"idle", "returned"}
    /\ ctl_calls < MaxControlCalls
    /\ ~FreedWhileHeld
    /\ ~(length = 0 /\ free_reqs # {})
    /\ ctl_calls' = ctl_calls + 1
    /\ ctl_length' = length
    /\ ctl_timeout' = timeout
    /\ ctl_timed_out' = FALSE
    /\ ctl_cancels' = 0
    /\ ctl_delivered' = FALSE
    /\ completion' = FALSE
    /\ ctl_req' = NoReq
    /\ ctl_status' = "ZX_ERR_NO_MEMORY"
    /\ ctl_pc' = "returned"
    /\ UNCHANGED <<free_reqs, released, hci_ep0, hci_cancelled, response_status,
                   next_req, dangling_complete>>
    /\ UNCHANGED notControlVars

\* usb_device_control: the first sync_completion_wait returns ZX_OK and status
\* becomes the response's status (usb-device.c:574-577)
usb_device_control_wait_ok ==
    /\ ctl_pc = "wait"
    /\ completion
    /\ ctl_status' = response_status[ctl_req]
    /\ ctl_pc' = "finish"
    /\ UNCHANGED <<ctl_length, ctl_timeout, ctl_req, completion, free_reqs, released,
                   hci_ep0, hci_cancelled, response_status, next_req, ctl_calls,
                   ctl_timed_out, ctl_cancels, ctl_delivered, dangling_complete>>
    /\ UNCHANGED notControlVars

\* usb_device_control: the first sync_completion_wait reaches its deadline
\* with the completion not signaled and returns ZX_ERR_TIMED_OUT
\* (usb-device.c:574, 578)
usb_device_control_wait_timed_out ==
    /\ ctl_pc = "wait"
    /\ ctl_timeout = "finite"
    /\ ~completion
    /\ ctl_status' = "ZX_ERR_TIMED_OUT"
    /\ ctl_timed_out' = TRUE
    /\ ctl_pc' = "reset"
    /\ UNCHANGED <<ctl_length, ctl_timeout, ctl_req, completion, free_reqs, released,
                   hci_ep0, hci_cancelled, response_status, next_req, ctl_calls,
                   ctl_cancels, ctl_delivered, dangling_complete>>
    /\ UNCHANGED notControlVars

\* usb_device_control: sync_completion_reset (usb-device.c:580)
usb_device_control_reset ==
    /\ ctl_pc = "reset"
    /\ completion' = FALSE
    /\ ctl_pc' = "cancel"
    /\ UNCHANGED <<ctl_length, ctl_timeout, ctl_req, ctl_status, free_reqs, released,
                   hci_ep0, hci_cancelled, response_status, next_req, ctl_calls,
                   ctl_timed_out, ctl_cancels, ctl_delivered, dangling_complete>>
    /\ UNCHANGED notControlVars

\* usb_device_control: usb_hci_cancel_all(device_id, 0) returns ZX_OK, having
\* cancelled what the HCI driver holds on endpoint 0; the function goes on to
\* the second wait (usb-device.c:581-583)
usb_device_control_cancel_all_ok ==
    /\ ctl_pc = "cancel"
    /\ ctl_cancels' = ctl_cancels + 1
    /\ hci_cancelled' = hci_ep0
    /\ ctl_status' = "ZX_OK"
    /\ ctl_pc' = "wait_forever"
    /\ UNCHANGED <<ctl_length, ctl_timeout, ctl_req, completion, free_reqs, released,
                   hci_ep0, response_status, next_req, ctl_calls, ctl_timed_out,
                   ctl_delivered, dangling_complete>>
    /\ UNCHANGED notControlVars

\* usb_device_control: usb_hci_cancel_all returns an error; the function
\* keeps that status and skips the second wait (usb-device.c:581-582, 586)
usb_device_control_cancel_all_fails ==
    /\ ctl_pc = "cancel"
    /\ ctl_cancels' = ctl_cancels + 1
    /\ ctl_status' = "ZX_ERR_IO"
    /\ ctl_pc' = "finish"
    /\ UNCHANGED <<ctl_length, ctl_timeout, ctl_req, completion, free_reqs, released,
                   hci_ep0, hci_cancelled, response_status, next_req, ctl_calls,
                   ctl_timed_out, ctl_delivered, dangling_complete>>
    /\ UNCHANGED notControlVars

\* usb_device_control: the second, unbounded sync_completion_wait returns and
\* status becomes ZX_ERR_TIMED_OUT (usb-device.c:583-584)
usb_device_control_wait_forever ==
    /\ ctl_pc = "wait_forever"
    /\ completion
    /\ ctl_status' = "ZX_ERR_TIMED_OUT"
    /\ ctl_pc' = "finish"
    /\ UNCHANGED <<ctl_length, ctl_timeout, ctl_req, completion, free_reqs, released,
                   hci_ep0, hci_cancelled, response_status, next_req, ctl_calls,
                   ctl_timed_out, ctl_cancels, ctl_delivered, dangling_complete>>
    /\ UNCHANGED notControlVars

\* usb_device_control: the request goes back to the pool (length 0) or is
\* released, and the function returns status (usb-device.c:587-602)
usb_device_control_release ==
    /\ ctl_pc = "finish"
    /\ IF ctl_length = 0
       THEN free_reqs' = free_reqs \cup {ctl_req} /\ UNCHANGED released
       ELSE released' = released \cup {ctl_req} /\ UNCHANGED free_reqs
    /\ ctl_pc' = "returned"
    /\ UNCHANGED <<ctl_length, ctl_timeout, ctl_req, ctl_status, completion, hci_ep0,
                   hci_cancelled, response_status, next_req, ctl_calls,
                   ctl_timed_out, ctl_cancels, ctl_delivered, dangling_complete>>
    /\ UNCHANGED notControlVars

\* The HCI driver completes a request of endpoint 0: it sets the response
\* (ZX_ERR_CANCELED for a cancelled request) and calls usb_control_complete,
\* which signals the completion the cookie points to (usb-device.c:530-532).
\* The cookie of a request that usb_device_control gave up before is the
\* completion of a call that has returned.
hci_ep0_complete(r, st) ==
    /\ r \in hci_ep0
    /\ (r \in hci_cancelled) = (st = "ZX_ERR_CANCELED")
    /\ hci_ep0' = hci_ep0 \ {r}
    /\ hci_cancelled' = hci_cancelled \ {r}
    /\ response_status' = [response_status EXCEPT ![r] = st]
    /\ IF r = ctl_req /\ ControlActive
       THEN /\ completion' = TRUE
            /\ ctl_delivered' = TRUE
            /\ UNCHANGED dangling_complete
       ELSE /\ dangling_complete' = TRUE
            /\ UNCHANGED <<completion, ctl_delivered>>
    /\ UNCHANGED <<ctl_pc, ctl_length, ctl_timeout, ctl_req, ctl_status, free_reqs,
                   released, next_req, ctl_calls, ctl_timed_out, ctl_cancels>>
    /\ UNCHANGED notControlVars

ControlRequests == 1..MaxControlCalls

\* before the first control transfer: usb_request_pool_init (usb-device.c:782)
InitControl ==
    /\ ctl_pc = "idle"
    /\ ctl_length = 0
    /\ ctl_timeout = "infinite"
    /\ ctl_req = NoReq
    /\ ctl_status = "none"
    /\ completion = FALSE
    /\ free_reqs = {}
    /\ released = {}
    /\ hci_ep0 = {}
    /\ hci_cancelled = {}
    /\ response_status = [r \in ControlRequests |-> "none"]
    /\ next_req = 1
    /\ ctl_calls = 0
    /\ ctl_timed_out = FALSE
    /\ ctl_cancels = 0
    /\ ctl_delivered = FALSE
    /\ dangling_complete = FALSE

\* lengths of the data stage and timeouts of the calls
ControlLengths == {0, 8}
ControlTimeouts == {"finite", "infinite"}
HciStatuses == {"ZX_OK", "ZX_ERR_IO", "ZX_ERR_CANCELED"}

NextControl ==
    \/ \E length \in ControlLengths, timeout \in ControlTimeouts :
           usb_device_control_queue(length, timeout)
    \/ \E length \in ControlLengths, timeout \in ControlTimeouts :
           usb_device_control_no_memory(length, timeout)
    \/ usb_device_control_wait_ok
    \/ usb_device_control_wait_timed_out
    \/ usb_device_control_reset
    \/ usb_device_control_cancel_all_ok
    \/ usb_device_control_cancel_all_fails
    \/ usb_device_control_wait_forever
    \/ usb_device_control_release
    \/ \E r \in ControlRequests, st \in HciStatuses : hci_ep0_complete(r, st)

\* ------------------------------------------------------------------------
\* The interface registry: interface_statuses and children of one device,
\* the walk of the configuration that publishes the children
\* (usb_device_add_interfaces), usb_device_claim_interface,
\* usb_device_set_configuration and usb_device_set_interface
\* ------------------------------------------------------------------------

\* descriptor types (zircon/hw/usb.h)
USB_DT_CONFIG == 2
USB_DT_INTERFACE == 4
USB_DT_ENDPOINT == 5
USB_DT_OTG == 9
USB_DT_INTERFACE_ASSOCIATION == 11

\* The descriptors as the device sends them, byte by byte (zircon/hw/usb.h:
\* usb_interface_descriptor_t, usb_endpoint_descriptor_t,
\* usb_interface_assoc_descriptor_t, usb_configuration_descriptor_t; the
\* first byte is bLength, the second bDescriptorType)
usb_interface_descriptor_t(bInterfaceNumber, bAlternateSetting, bNumEndpoints) ==
    <<9, USB_DT_INTERFACE, bInterfaceNumber, bAlternateSetting, bNumEndpoints,
      255, 0, 0, 0>>

usb_endpoint_descriptor_t(bEndpointAddress) ==
    <<7, USB_DT_ENDPOINT, bEndpointAddress, 2, 0, 2, 0>>

usb_interface_assoc_descriptor_t(bFirstInterface, bInterfaceCount) ==
    <<8, USB_DT_INTERFACE_ASSOCIATION, bFirstInterface, bInterfaceCount,
      255, 0, 0, 0>>

usb_otg_descriptor_t == <<3, USB_DT_OTG, 3>>

usb_configuration_descriptor_t(bConfigurationValue, bNumInterfaces, body) ==
    <<9, USB_DT_CONFIG, (9 + Len(body)) % 256, (9 + Len(body)) \div 256,
      bNumInterfaces, bConfigurationValue, 0, 128, 50>> \o body

\* dev->config_descs: the configurations read from the device.
\* Configuration 1: interface 0 with two alternate settings, interface 1 and
\* interface 2, each a group of its own.  Configuration 2: an OTG descriptor,
\* an association of interface 0 alone and an association of interfaces 1
\* and 2, interface 2 with two alternate settings.  Configuration 3: four
\* interfaces.  A device with fewer configurations has the first ones.
config_descs ==
    << usb_configuration_descriptor_t(1, 3,
           usb_interface_descriptor_t(0, 0, 1) \o usb_endpoint_descriptor_t(129)
        \o usb_interface_descriptor_t(0, 1, 1) \o usb_endpoint_descriptor_t(129)
        \o usb_interface_descriptor_t(1, 0, 1) \o usb_endpoint_descriptor_t(2)
        \o usb_interface_descriptor_t(2, 0, 0)),
       usb_configuration_descriptor_t(2, 3,
           usb_otg_descriptor_t
        \o usb_interface_assoc_descriptor_t(0, 1)
        \o usb_interface_descriptor_t(0, 0, 0)
        \o usb_interface_assoc_descriptor_t(1, 2)
        \o usb_interface_descriptor_t(1, 0, 0)
        \o usb_interface_descriptor_t(2, 0, 0)
        \o usb_interface_descriptor_t(2, 1, 1) \o usb_endpoint_descriptor_t(131)),
       usb_configuration_descriptor_t(3, 4,
           usb_interface_descriptor_t(0, 0, 0)
        \o usb_interface_descriptor_t(1, 0, 0)
        \o usb_interface_descriptor_t(2, 0, 0)
        \o usb_interface_descriptor_t(3, 0, 0)) >>

\* dev->device_desc.bNumConfigurations
bNumConfigurations == device_desc.bNumConfigurations

\* dev->config_descs[index], index counted from 0 as in the code
ConfigDesc(index) == config_descs[index + 1]

\* the byte at an offset of a configuration, and the fields the walk reads
Byte(desc, offset) == desc[offset + 1]
bLength(desc, header) == Byte(desc, header)
bDescriptorType(desc, header) == Byte(desc, header + 1)
bInterfaceNumber(desc, header) == Byte(desc, header + 2)
bAlternateSetting(desc, header) == Byte(desc, header + 3)
bInterfaceCount(desc, header) == Byte(desc, header + 3)
wTotalLength(desc) == Byte(desc, 2) + 256 * Byte(desc, 3)
bNumInterfaces(desc) == Byte(desc, 4)
bConfigurationValue(desc) == Byte(desc, 5)

NEXT_DESCRIPTOR(desc, header) == header + bLength(desc, header)

\* "find end of this interface association": the offset at which the inner
\* loop of the association branch stops
RECURSIVE AssociationEnd(_, _, _, _)
AssociationEnd(desc, next, end, interface_count) ==
    IF next >= end THEN next
    ELSE IF bDescriptorType(desc, next) = USB_DT_INTERFACE_ASSOCIATION THEN next
    ELSE IF /\ bDescriptorType(desc, next) = USB_DT_INTERFACE
            /\ bAlternateSetting(desc, next) = 0
         THEN IF interface_count = 0
              THEN next
              ELSE AssociationEnd(desc, NEXT_DESCRIPTOR(desc, next), end,
                                  interface_count - 1)
    ELSE AssociationEnd(desc, NEXT_DESCRIPTOR(desc, next), end, interface_count)

\* an inner loop that stops at every interface descriptor, whatever its
\* alternate setting
RECURSIVE InterfaceEndAnySetting(_, _, _)
InterfaceEndAnySetting(desc, next, end) ==
    IF next >= end THEN next
    ELSE IF bDescriptorType(desc, next) = USB_DT_INTERFACE THEN next
    ELSE InterfaceEndAnySetting(desc, NEXT_DESCRIPTOR(desc, next), end)

\* "find end of current interface descriptor": the offset at which the inner
\* loop of the interface branch stops
RECURSIVE InterfaceEnd(_, _, _)
InterfaceEnd(desc, next, end) ==
    IF next >= end THEN next
    ELSE IF /\ bDescriptorType(desc, next) = USB_DT_INTERFACE
            /\ bAlternateSetting(desc, next) = 0
         THEN next
    ELSE InterfaceEnd(desc, NEXT_DESCRIPTOR(desc, next), end)

\* interface_status_t
AVAILABLE == "AVAILABLE"
CLAIMED == "CLAIMED"
CHILD_DEVICE == "CHILD_DEVICE"

\* the threads that call into the registry: the thread that runs
\* usb_device_add and later switches the configuration, and a client thread
Threads == {"t1", "t2"}
ConfigThreads == {"t1"}
ClientThreads == {"t2"}

\* a usb_interface_t: the child device the framework created and the span of
\* the configuration descriptor copied into it
usb_interface_t(id, config, from, to) ==
    [id |-> id, config |-> config, from |-> from, to |-> to]

\* the interface numbers of the interface descriptors in a span
RECURSIVE SpanInterfaces(_, _, _)
SpanInterfaces(desc, header, end) ==
    IF header >= end THEN {}
    ELSE (IF bDescriptorType(desc, header) = USB_DT_INTERFACE
          THEN {bInterfaceNumber(desc, header)} ELSE {})
         \cup SpanInterfaces(desc, NEXT_DESCRIPTOR(desc, header), end)

\* usb_interface_contains_interface (usb-interface.c): the child owns the
\* interface number
usb_interface_contains_interface(intf, interface_id) ==
    interface_id \in SpanInterfaces(ConfigDesc(intf.config), intf.from, intf.to)

\* the positions in children of the children that own an interface
ChildrenOf(interface_id) ==
    {k \in 1..Len(children) :
        usb_interface_contains_interface(children[k], interface_id)}

\* the first child in children that owns the interface
FirstChildOf(interface_id) ==
    CHOOSE k \in ChildrenOf(interface_id) :
        \A j \in ChildrenOf(interface_id) : k <= j

\* a list without its k-th node (list_delete)
list_delete(list, k) ==
    [j \in 1..(Len(list) - 1) |-> IF j < k THEN list[j] ELSE list[j + 1]]

\* device_remove was called on the child device once more
device_remove(counts, id) == [counts EXCEPT ![id] = @ + 1]

\* usb_device_remove_interface_by_id_locked (usb-interface.c) when a child
\* owns the interface: the first such child leaves children and the framework
\* removes it; it returns true.  When no child owns it, it returns false and
\* changes nothing.
usb_device_remove_interface_by_id_locked(interface_id) ==
    /\ children' = list_delete(children, FirstChildOf(interface_id))
    /\ remove_count' = device_remove(remove_count,
                                     children[FirstChildOf(interface_id)].id)

\* usb_device_add_interface and usb_device_add_interface_association
\* (usb-interface.c) when the framework adds the child: the new child is in
\* children.  Neither reads nor writes interface_statuses; the walk does.
usb_device_add_interface(config, from, to) ==
    /\ children' = list_add_head(children,
                                 usb_interface_t(next_child, config, from, to))
    /\ remove_count' = remove_count @@ (next_child :> 0)
    /\ next_child' = next_child + 1

\* the statuses with which the framework's device_add, or the allocation of
\* the child, may end
AddStatuses == {"ZX_OK", "ZX_ERR_NO_MEMORY"}
\* the statuses of a control transfer or of usb_interface_set_alt_setting
CallStatuses == {"ZX_OK", "ZX_ERR_IO"}

\* A read of dev->interface_statuses[i].  The array has the length it was
\* calloc'ed with; reading beyond it is undefined and yields any value (a
\* value that is none of the three acts as AVAILABLE or as CHILD_DEVICE in
\* every comparison the code makes).
ReadStatus(i) ==
    IF i \in DOMAIN interface_statuses
    THEN {interface_statuses[i]}
    ELSE {AVAILABLE, CLAIMED, CHILD_DEVICE}

\* A write of dev->interface_statuses[i]; beyond the array it lands in the
\* memory that follows it and the array keeps its entries.
WriteStatus(i, status) ==
    IF i \in DOMAIN interface_statuses
    THEN [interface_statuses EXCEPT ![i] = status]
    ELSE interface_statuses

\* a thread outside the registry's functions
IdleThread(ret) ==
    [pc |-> "idle", config |-> 0, header |-> 0, next |-> 0,
     result |-> "ZX_OK", ret |-> ret, raced |-> FALSE,
     done_claimed |-> {}, done_raced |-> {}, sel |-> {}]

\* the thread's registers while it walks: nothing was just handled
Walking(t) == [t EXCEPT !.done_claimed = {}, !.done_raced = {}]

\* the configuration a thread walks, its end and the descriptor it is at
WalkDesc(w) == ConfigDesc(thr[w].config)
WalkEnd(w) == wTotalLength(WalkDesc(w))
AtDescriptor(w, type) ==
    /\ thr[w].pc = "walk"
    /\ thr[w].header < WalkEnd(w)
    /\ bDescriptorType(WalkDesc(w), thr[w].header) = type

\* usb_device_add_interfaces, lines 359-364: the walk begins after the
\* configuration descriptor
usb_device_add_interfaces_start(w) ==
    /\ thr[w].pc = "add_interfaces"
    /\ thr' = [thr EXCEPT ![w] =
                  [Walking(@) EXCEPT !.pc = "walk",
                                     !.header = NEXT_DESCRIPTOR(WalkDesc(w), 0),
                                     !.result = "ZX_OK"]]
    /\ UNCHANGED <<current_config_index, interface_statuses, children,
                   interface_mutex, next_child, remove_count, set_configs,
                   claim_ok, claim_ret>>
    /\ UNCHANGED notRegistryVars

\* usb_device_add_interfaces, lines 366 and 452: header reached end, the walk
\* returns result
usb_device_add_interfaces_return(w) ==
    /\ thr[w].pc = "walk"
    /\ thr[w].header >= WalkEnd(w)
    /\ thr' = [thr EXCEPT ![w] = IdleThread(thr[w].result)]
    /\ UNCHANGED <<current_config_index, interface_statuses, children,
                   interface_mutex, next_child, remove_count, set_configs,
                   claim_ok, claim_ret>>
    /\ UNCHANGED notRegistryVars

\* usb_device_add_interfaces, lines 447-449: any other descriptor is skipped
usb_device_add_interfaces_other(w) ==
    /\ thr[w].pc = "walk"
    /\ thr[w].header < WalkEnd(w)
    /\ bDescriptorType(WalkDesc(w), thr[w].header)
           \notin {USB_DT_INTERFACE_ASSOCIATION, USB_DT_INTERFACE}
    /\ thr' = [thr EXCEPT ![w] =
                  [Walking(@) EXCEPT
                      !.header = NEXT_DESCRIPTOR(WalkDesc(w), thr[w].header)]]
    /\ UNCHANGED <<current_config_index, interface_statuses, children,
                   interface_mutex, next_child, remove_count, set_configs,
                   claim_ok, claim_ret>>
    /\ UNCHANGED notRegistryVars

\* the end of the association group at header
AssocNext(w) ==
    AssociationEnd(WalkDesc(w),
                   NEXT_DESCRIPTOR(WalkDesc(w), thr[w].header), WalkEnd(w),
                   bInterfaceCount(WalkDesc(w), thr[w].header))

\* usb_device_add_interfaces, lines 367-399: an interface association.  The
\* group is copied and handed to usb_device_add_interface_association, which
\* takes interface_mutex to put the child into children; interface_statuses
\* is neither read nor written.
usb_device_add_interfaces_assoc(w, status) ==
    /\ AtDescriptor(w, USB_DT_INTERFACE_ASSOCIATION)
    /\ interface_mutex = NoThread
    /\ IF status = "ZX_OK"
       THEN usb_device_add_interface(thr[w].config, thr[w].header, AssocNext(w))
       ELSE UNCHANGED <<children, remove_count, next_child>>
    /\ thr' = [thr EXCEPT ![w] =
                  [@ EXCEPT !.header = AssocNext(w),
                            !.result = IF status = "ZX_OK" THEN @ ELSE status,
                            !.done_claimed =
                                claim_ok \cap SpanInterfaces(WalkDesc(w),
                                                  thr[w].header, AssocNext(w)),
                            !.done_raced = {}]]
    /\ UNCHANGED <<current_config_index, interface_statuses, interface_mutex,
                   set_configs, claim_ok, claim_ret>>
    /\ UNCHANGED notRegistryVars

\* usb_device_add_interfaces, lines 390-391: malloc of the copy of the
\* association fails and the walk returns at once
usb_device_add_interfaces_assoc_no_memory(w) ==
    /\ AtDescriptor(w, USB_DT_INTERFACE_ASSOCIATION)
    /\ thr' = [thr EXCEPT ![w] = IdleThread("ZX_ERR_NO_MEMORY")]
    /\ UNCHANGED <<current_config_index, interface_statuses, children,
                   interface_mutex, next_child, remove_count, set_configs,
                   claim_ok, claim_ret>>
    /\ UNCHANGED notRegistryVars

\* usb_device_add_interfaces, lines 400-422 and 446: an interface.  The end
\* of the group is found and the status is read under interface_mutex; a
\* group whose interface is not AVAILABLE is passed over.
usb_device_add_interfaces_read(w) ==
    /\ AtDescriptor(w, USB_DT_INTERFACE)
    /\ interface_mutex = NoThread
    /\ LET desc == WalkDesc(w)
           header == thr[w].header
           next == InterfaceEnd(desc, NEXT_DESCRIPTOR(desc, header), WalkEnd(w))
           num == bInterfaceNumber(desc, header)
       IN \E intf_status \in ReadStatus(num) :
              thr' = [thr EXCEPT ![w] =
                         IF intf_status = AVAILABLE
                         THEN [Walking(@) EXCEPT !.pc = "add_interface",
                                                 !.next = next,
                                                 !.raced = FALSE]
                         ELSE [@ EXCEPT !.header = next,
                                        !.done_claimed = claim_ok \cap {num},
                                        !.done_raced = {}]]
    /\ UNCHANGED <<current_config_index, interface_statuses, children,
                   interface_mutex, next_child, remove_count, set_configs,
                   claim_ok, claim_ret>>
    /\ UNCHANGED notRegistryVars

\* usb_device_add_interfaces, lines 423-424: malloc of the copy of the
\* interface fails and the walk returns at once
usb_device_add_interfaces_intf_no_memory(w) ==
    /\ thr[w].pc = "add_interface"
    /\ thr' = [thr EXCEPT ![w] = IdleThread("ZX_ERR_NO_MEMORY")]
    /\ UNCHANGED <<current_config_index, interface_statuses, children,
                   interface_mutex, next_child, remove_count, set_configs,
                   claim_ok, claim_ret>>
    /\ UNCHANGED notRegistryVars

\* usb_device_add_interfaces, lines 425-430: the group is copied and
\* usb_device_add_interface returns
usb_device_add_interfaces_add(w, status) ==
    /\ thr[w].pc = "add_interface"
    /\ interface_mutex = NoThread
    /\ IF status = "ZX_OK"
       THEN usb_device_add_interface(thr[w].config, thr[w].header, thr[w].next)
       ELSE UNCHANGED <<children, remove_count, next_child>>
    /\ thr' = [thr EXCEPT ![w] =
                  [@ EXCEPT !.pc = "recheck",
                            !.result = IF status = "ZX_OK" THEN @ ELSE status]]
    /\ UNCHANGED <<current_config_index, interface_statuses, interface_mutex,
                   set_configs, claim_ok, claim_ret>>
    /\ UNCHANGED notRegistryVars

\* what the walk's thread holds once it has handled the interface at header
Rechecked(w, num) ==
    [thr[w] EXCEPT !.pc = "walk", !.header = thr[w].next, !.next = 0,
                   !.raced = FALSE, !.done_claimed = {},
                   !.done_raced = IF thr[w].raced THEN {num} ELSE {}]

\* a recheck that publishes whatever the status has become
usb_device_add_interfaces_recheck_always_child(w) ==
    /\ thr[w].pc = "recheck"
    /\ interface_mutex = NoThread
    /\ LET num == bInterfaceNumber(WalkDesc(w), thr[w].header)
       IN /\ interface_statuses' =
                 [interface_statuses EXCEPT ![num] = CHILD_DEVICE]
          /\ thr' = [thr EXCEPT ![w] = Rechecked(w, num)]
          /\ UNCHANGED <<children, remove_count>>
    /\ UNCHANGED <<current_config_index, interface_mutex, next_child,
                   set_configs, claim_ok, claim_ret>>
    /\ UNCHANGED notRegistryVars

\* a recheck that leaves the fresh child of a claimed interface in children
usb_device_add_interfaces_recheck_no_remove(w) ==
    /\ thr[w].pc = "recheck"
    /\ interface_mutex = NoThread
    /\ LET num == bInterfaceNumber(WalkDesc(w), thr[w].header)
       IN /\ interface_statuses' =
                 IF interface_statuses[num] = CLAIMED
                 THEN interface_statuses
                 ELSE [interface_statuses EXCEPT ![num] = CHILD_DEVICE]
          /\ thr' = [thr EXCEPT ![w] = Rechecked(w, num)]
          /\ UNCHANGED <<children, remove_count>>
    /\ UNCHANGED <<current_config_index, interface_mutex, next_child,
                   set_configs, claim_ok, claim_ret>>
    /\ UNCHANGED notRegistryVars

\* usb_device_add_interfaces, lines 431-446: the status is read again under
\* interface_mutex.  If the interface was claimed in the meanwhile its child
\* is removed (and the walk returns ZX_ERR_BAD_STATE when there is none);
\* otherwise the interface becomes CHILD_DEVICE.
usb_device_add_interfaces_recheck(w) ==
    /\ thr[w].pc = "recheck"
    /\ interface_mutex = NoThread
    /\ LET num == bInterfaceNumber(WalkDesc(w), thr[w].header)
       IN \E status \in ReadStatus(num) :
          IF status = CLAIMED
          THEN IF ChildrenOf(num) # {}
               THEN /\ usb_device_remove_interface_by_id_locked(num)
                    /\ thr' = [thr EXCEPT ![w] = Rechecked(w, num)]
                    /\ UNCHANGED interface_statuses
               ELSE /\ thr' = [thr EXCEPT ![w] =
                                  [IdleThread("ZX_ERR_BAD_STATE") EXCEPT
                                      !.done_raced =
                                          IF thr[w].raced THEN {num} ELSE {}]]
                    /\ UNCHANGED <<interface_statuses, children, remove_count>>
          ELSE /\ interface_statuses' = WriteStatus(num, CHILD_DEVICE)
               /\ thr' = [thr EXCEPT ![w] = Rechecked(w, num)]
               /\ UNCHANGED <<children, remove_count>>
    /\ UNCHANGED <<current_config_index, interface_mutex, next_child,
                   set_configs, claim_ok, claim_ret>>
    /\ UNCHANGED notRegistryVars

\* the threads whose walk has read interface_id AVAILABLE and whose
\* usb_device_add_interface has not returned yet
InAddWindow(interface_id) ==
    {w \in Threads :
        /\ thr[w].pc = "add_interface"
        /\ bInterfaceNumber(WalkDesc(w), thr[w].header) = interface_id}

\* what a successful claim leaves behind for the properties: the interface
\* was claimed since the last reset, the child devices the call removed, and
\* the walks it raced with
ClaimedOk(interface_id, removed) ==
    /\ claim_ok' = claim_ok \cup {interface_id}
    /\ claim_ret' = [interface_id |-> interface_id, status |-> "ZX_OK",
                     removed |-> removed]
    /\ thr' = [w \in Threads |->
                  IF w \in InAddWindow(interface_id)
                  THEN [thr[w] EXCEPT !.raced = TRUE]
                  ELSE thr[w]]

\* a claim that marks a published interface CLAIMED and leaves its child
usb_device_claim_interface_keep_child(interface_id) ==
    /\ interface_mutex = NoThread
    /\ LET status == interface_statuses[interface_id]
       IN IF status = CLAIMED
          THEN /\ claim_ret' = [interface_id |-> interface_id,
                                status |-> "ZX_ERR_ALREADY_BOUND",
                                removed |-> {}]
               /\ UNCHANGED <<interface_statuses, children, remove_count,
                              claim_ok, thr>>
          ELSE /\ interface_statuses' =
                      [interface_statuses EXCEPT ![interface_id] = CLAIMED]
               /\ ClaimedOk(interface_id, {})
               /\ UNCHANGED <<children, remove_count>>
    /\ UNCHANGED <<current_config_index, interface_mutex, next_child,
                   set_configs>>
    /\ UNCHANGED notRegistryVars

\* a claim that takes an interface although it is CLAIMED already
usb_device_claim_interface_again(interface_id) ==
    /\ interface_mutex = NoThread
    /\ interface_statuses' =
           [interface_statuses EXCEPT ![interface_id] = CLAIMED]
    /\ ClaimedOk(interface_id, {})
    /\ UNCHANGED <<children, remove_count>>
    /\ UNCHANGED <<current_config_index, interface_mutex, next_child,
                   set_configs>>
    /\ UNCHANGED notRegistryVars

\* usb_device_claim_interface, lines 132-152, called by a driver bound to a
\* child of the device; the whole body runs under interface_mutex
usb_device_claim_interface(interface_id) ==
    /\ interface_mutex = NoThread
    /\ \E status \in ReadStatus(interface_id) :
          IF status = CLAIMED
          THEN /\ claim_ret' = [interface_id |-> interface_id,
                                status |-> "ZX_ERR_ALREADY_BOUND",
                                removed |-> {}]
               /\ UNCHANGED <<interface_statuses, children, remove_count,
                              claim_ok, thr>>
          ELSE IF status = CHILD_DEVICE /\ ChildrenOf(interface_id) = {}
          THEN /\ claim_ret' = [interface_id |-> interface_id,
                                status |-> "ZX_ERR_BAD_STATE",
                                removed |-> {}]
               /\ UNCHANGED <<interface_statuses, children, remove_count,
                              claim_ok, thr>>
          ELSE /\ IF status = CHILD_DEVICE
                  THEN usb_device_remove_interface_by_id_locked(interface_id)
                  ELSE UNCHANGED <<children, remove_count>>
               /\ interface_statuses' = WriteStatus(interface_id, CLAIMED)
               /\ ClaimedOk(interface_id,
                            IF status = CHILD_DEVICE
                            THEN {children[FirstChildOf(interface_id)].id}
                            ELSE {})
    /\ UNCHANGED <<current_config_index, interface_mutex, next_child,
                   set_configs>>
    /\ UNCHANGED notRegistryVars

\* the indexes of the configurations with a bConfigurationValue
ConfigsWithValue(config) ==
    {i \in 0..(bNumConfigurations - 1) :
        bConfigurationValue(ConfigDesc(i)) = config}

\* usb_device_ioctl, IOCTL_USB_GET_CONFIGURATION, lines 307-314: the reply is
\* the bConfigurationValue of config_descs[current_config_index]
IOCTL_USB_GET_CONFIGURATION ==
    bConfigurationValue(ConfigDesc(current_config_index))

\* a search that stops at the first configuration whatever its value
config_index_first(config) == 0

\* usb_device_set_configuration, lines 648-655: the first such index
config_index(config) ==
    CHOOSE i \in ConfigsWithValue(config) :
        \A j \in ConfigsWithValue(config) : i <= j

\* usb_device_set_configuration without the return of line 656: the call goes
\* on with the first configuration
usb_device_set_configuration_invalid_goes_on(w, config) ==
    /\ thr[w].pc = "idle"
    /\ set_configs < MaxSetConfigs
    /\ ConfigsWithValue(config) = {}
    /\ set_configs' = set_configs + 1
    /\ current_config_index' = 0
    /\ thr' = [thr EXCEPT ![w] =
                  [IdleThread("none") EXCEPT !.pc = "remove_interfaces",
                                             !.config = 0]]
    /\ UNCHANGED <<interface_statuses, children, interface_mutex, next_child,
                   remove_count, claim_ok, claim_ret>>
    /\ UNCHANGED notRegistryVars

\* usb_device_set_configuration, lines 643-656: no configuration has the
\* value
usb_device_set_configuration_invalid(w, config) ==
    /\ thr[w].pc = "idle"
    /\ set_configs < MaxSetConfigs
    /\ ConfigsWithValue(config) = {}
    /\ set_configs' = set_configs + 1
    /\ thr' = [thr EXCEPT ![w] = IdleThread("ZX_ERR_INVALID_ARGS")]
    /\ UNCHANGED <<current_config_index, interface_statuses, children,
                   interface_mutex, next_child, remove_count, claim_ok,
                   claim_ret>>
    /\ UNCHANGED notRegistryVars

\* usb_device_set_configuration, lines 659-664: the SET_CONFIGURATION control
\* transfer fails
usb_device_set_configuration_control_fails(w, config) ==
    /\ thr[w].pc = "idle"
    /\ set_configs < MaxSetConfigs
    /\ ConfigsWithValue(config) # {}
    /\ set_configs' = set_configs + 1
    /\ thr' = [thr EXCEPT ![w] = IdleThread("ZX_ERR_IO")]
    /\ UNCHANGED <<current_config_index, interface_statuses, children,
                   interface_mutex, next_child, remove_count, claim_ok,
                   claim_ret>>
    /\ UNCHANGED notRegistryVars

\* usb_device_set_configuration, lines 643-666: the configuration is found,
\* the control transfer succeeds and current_config_index is set
usb_device_set_configuration_select(w, config) ==
    /\ thr[w].pc = "idle"
    /\ set_configs < MaxSetConfigs
    /\ ConfigsWithValue(config) # {}
    /\ set_configs' = set_configs + 1
    /\ current_config_index' = config_index(config)
    /\ thr' = [thr EXCEPT ![w] =
                  [IdleThread("none") EXCEPT !.pc = "remove_interfaces",
                                             !.config = config_index(config)]]
    /\ UNCHANGED <<interface_statuses, children, interface_mutex, next_child,
                   remove_count, claim_ok, claim_ret>>
    /\ UNCHANGED notRegistryVars

\* usb_device_remove_interfaces, line 122
usb_device_remove_interfaces_lock(w) ==
    /\ thr[w].pc = "remove_interfaces"
    /\ interface_mutex = NoThread
    /\ interface_mutex' = w
    /\ thr' = [thr EXCEPT ![w].pc = "remove_head"]
    /\ UNCHANGED <<current_config_index, interface_statuses, children,
                   next_child, remove_count, set_configs, claim_ok, claim_ret>>
    /\ UNCHANGED notRegistryVars

\* usb_device_remove_interfaces, lines 125-127: the head of children is
\* taken off and the framework removes it
usb_device_remove_interfaces_remove(w) ==
    /\ thr[w].pc = "remove_head"
    /\ children # << >>
    /\ children' = Tail(children)
    /\ remove_count' = device_remove(remove_count, Head(children).id)
    /\ UNCHANGED <<current_config_index, interface_statuses, interface_mutex,
                   thr, next_child, set_configs, claim_ok, claim_ret>>
    /\ UNCHANGED notRegistryVars

\* usb_device_remove_interfaces, lines 125 and 129: children is empty
usb_device_remove_interfaces_unlock(w) ==
    /\ thr[w].pc = "remove_head"
    /\ children = << >>
    /\ interface_mutex' = NoThread
    /\ thr' = [thr EXCEPT ![w].pc = "memset"]
    /\ UNCHANGED <<current_config_index, interface_statuses, children,
                   next_child, remove_count, set_configs, claim_ok, claim_ret>>
    /\ UNCHANGED notRegistryVars

\* usb_device_set_configuration, lines 670-672: the statuses of the new
\* configuration's interfaces are zeroed, which is AVAILABLE, without
\* interface_mutex; then the new configuration is walked
usb_device_set_configuration_memset(w) ==
    /\ thr[w].pc = "memset"
    /\ interface_statuses' =
           [i \in DOMAIN interface_statuses |->
               IF i < bNumInterfaces(WalkDesc(w))
               THEN AVAILABLE ELSE interface_statuses[i]]
    /\ claim_ok' = {}
    /\ thr' = [thr EXCEPT ![w].pc = "add_interfaces"]
    /\ UNCHANGED <<current_config_index, children, interface_mutex,
                   next_child, remove_count, set_configs, claim_ret>>
    /\ UNCHANGED notRegistryVars

\* usb_device_set_interface, lines 629-638: under interface_mutex the first
\* child that owns the interface is selected; without one the call returns
\* ZX_ERR_INVALID_ARGS
usb_device_set_interface_find(w, interface_number) ==
    /\ thr[w].pc = "idle"
    /\ interface_mutex = NoThread
    /\ thr' = [thr EXCEPT ![w] =
                  IF ChildrenOf(interface_number) # {}
                  THEN [IdleThread("none") EXCEPT
                           !.pc = "set_alt_setting",
                           !.sel = {children[FirstChildOf(interface_number)].id}]
                  ELSE IdleThread("ZX_ERR_INVALID_ARGS")]
    /\ UNCHANGED <<current_config_index, interface_statuses, children,
                   interface_mutex, next_child, remove_count, set_configs,
                   claim_ok, claim_ret>>
    /\ UNCHANGED notRegistryVars

\* usb_device_set_interface, line 634: usb_interface_set_alt_setting runs on
\* the selected child, outside interface_mutex, and its status is returned
usb_device_set_interface_forward(w, status) ==
    /\ thr[w].pc = "set_alt_setting"
    /\ thr' = [thr EXCEPT ![w] = IdleThread(status)]
    /\ UNCHANGED <<current_config_index, interface_statuses, children,
                   interface_mutex, next_child, remove_count, set_configs,
                   claim_ok, claim_ret>>
    /\ UNCHANGED notRegistryVars

\* the interface numbers a caller passes: those of the device's interfaces
InterfaceIds == 0..(bNumInterfaces(ConfigDesc(0)) - 1)
\* the configuration values a caller passes; 0 is no configuration's value
ConfigValues == {0, 1, 2}

\* config_overrides, lines 33-36: the Realtek ethernet dongle 0x0bda:0x8153
\* uses configuration 2; the entry of zeroes ends the table
config_overrides ==
    << [vid |-> 3034, pid |-> 33107, configuration |-> 2],
       [vid |-> 0, pid |-> 0, configuration |-> 0] >>

\* usb_device_add, lines 829-838: configuration 1 unless an entry of the
\* table before its end matches the device
RECURSIVE OverrideFrom(_, _)
OverrideFrom(desc, override) ==
    IF config_overrides[override].configuration = 0 THEN 1
    ELSE IF /\ config_overrides[override].vid = desc.idVendor
            /\ config_overrides[override].pid = desc.idProduct
         THEN config_overrides[override].configuration
    ELSE OverrideFrom(desc, override + 1)

configuration(desc) == OverrideFrom(desc, 1)

\* usb_device_add without the check of lines 839-842
usb_device_add_unchecked(desc) == "ZX_OK"

\* usb_device_add, lines 839-842: a configuration number beyond the device's
\* configurations ends usb_device_add with ZX_ERR_INTERNAL
usb_device_add_check(desc) ==
    IF configuration(desc) > desc.bNumConfigurations
    THEN "ZX_ERR_INTERNAL"
    ELSE "ZX_OK"

\* the device descriptors of the devices that are plugged in: the Realtek
\* dongle with three configurations and with one, and another product of the
\* vendor with three configurations and with none
Devices ==
    { [idVendor |-> 3034, idProduct |-> 33107,
       bNumConfigurations |-> Len(config_descs)],
      [idVendor |-> 3034, idProduct |-> 33107, bNumConfigurations |-> 1],
      [idVendor |-> 3034, idProduct |-> 33106,
       bNumConfigurations |-> Len(config_descs)],
      [idVendor |-> 3034, idProduct |-> 33106, bNumConfigurations |-> 0] }

\* The registry in usb_device_add after device_add, line 904: the device
\* descriptor was read, the configuration was chosen (the first one, or the
\* one the override table names for the device) and passed the check of
\* line 839, children is empty, interface_statuses was calloc'ed for its
\* bNumInterfaces, and the thread is about to walk it
InitRegistry ==
    /\ device_desc \in Devices
    /\ usb_device_add_check(device_desc) = "ZX_OK"
    /\ current_config_index = configuration(device_desc) - 1
    /\ interface_statuses =
           [i \in 0..(bNumInterfaces(ConfigDesc(current_config_index)) - 1)
               |-> AVAILABLE]
    /\ children = << >>
    /\ interface_mutex = NoThread
    /\ thr = [w \in Threads |->
                 IF w \in ConfigThreads
                 THEN [IdleThread("none") EXCEPT
                          !.pc = "add_interfaces",
                          !.config = current_config_index]
                 ELSE IdleThread("none")]
    /\ next_child = 1
    /\ remove_count = << >>
    /\ set_configs = 0
    /\ claim_ok = {}
    /\ claim_ret = [interface_id |-> 0, status |-> "none", removed |-> {}]

NextRegistry ==
    \/ \E w \in Threads : usb_device_add_interfaces_start(w)
    \/ \E w \in Threads : usb_device_add_interfaces_return(w)
    \/ \E w \in Threads : usb_device_add_interfaces_other(w)
    \/ \E w \in Threads, status \in AddStatuses :
           usb_device_add_interfaces_assoc(w, status)
    \/ \E w \in Threads : usb_device_add_interfaces_assoc_no_memory(w)
    \/ \E w \in Threads : usb_device_add_interfaces_read(w)
    \/ \E w \in Threads : usb_device_add_interfaces_intf_no_memory(w)
    \/ \E w \in Threads, status \in AddStatuses :
           usb_device_add_interfaces_add(w, status)
    \/ \E w \in Threads : usb_device_add_interfaces_recheck(w)
    \/ \E interface_id \in InterfaceIds :
           usb_device_claim_interface(interface_id)
    \/ \E w \in ConfigThreads, config \in ConfigValues :
           usb_device_set_configuration_invalid(w, config)
    \/ \E w \in ConfigThreads, config \in ConfigValues :
           usb_device_set_configuration_control_fails(w, config)
    \/ \E w \in ConfigThreads, config \in ConfigValues :
           usb_device_set_configuration_select(w, config)
    \/ \E w \in Threads : usb_device_remove_interfaces_lock(w)
    \/ \E w \in Threads : usb_device_remove_interfaces_remove(w)
    \/ \E w \in Threads : usb_device_remove_interfaces_unlock(w)
    \/ \E w \in Threads : usb_device_set_configuration_memset(w)

\* the registry with a client thread that calls usb_device_set_interface
\* while the other operations run
NextClient ==
    \/ \E w \in Threads : usb_device_add_interfaces_start(w)
    \/ \E w \in Threads : usb_device_add_interfaces_return(w)
    \/ \E w \in Threads : usb_device_add_interfaces_other(w)
    \/ \E w \in Threads, status \in AddStatuses :
           usb_device_add_interfaces_assoc(w, status)
    \/ \E w \in Threads : usb_device_add_interfaces_assoc_no_memory(w)
    \/ \E w \in Threads : usb_device_add_interfaces_read(w)
    \/ \E w \in Threads : usb_device_add_interfaces_intf_no_memory(w)
    \/ \E w \in Threads, status \in AddStatuses :
           usb_device_add_interfaces_add(w, status)
    \/ \E w \in Threads : usb_device_add_interfaces_recheck(w)
    \/ \E interface_id \in InterfaceIds :
           usb_device_claim_interface(interface_id)
    \/ \E w \in ConfigThreads, config \in ConfigValues :
           usb_device_set_configuration_invalid(w, config)
    \/ \E w \in ConfigThreads, config \in ConfigValues :
           usb_device_set_configuration_control_fails(w, config)
    \/ \E w \in ConfigThreads, config \in ConfigValues :
           usb_device_set_configuration_select(w, config)
    \/ \E w \in Threads : usb_device_remove_interfaces_lock(w)
    \/ \E w \in Threads : usb_device_remove_interfaces_remove(w)
    \/ \E w \in Threads : usb_device_remove_interfaces_unlock(w)
    \/ \E w \in Threads : usb_device_set_configuration_memset(w)
    \/ \E w \in ClientThreads, interface_number \in InterfaceIds :
           usb_device_set_interface_find(w, interface_number)
    \/ \E w \in Threads, status \in CallStatuses :
           usb_device_set_interface_forward(w, status)

\* The relay after usb_device_add: list_initialize, sync_completion_reset,
\* start_callback_thread (usb-device.c:779-782, 876); the clients hold their
\* requests, freshly allocated
InitRelay ==
    /\ reqs = [r \in Requests |-> [complete_cb |-> "null", cookie |-> "null",
                                   saved_complete_cb |-> "null",
                                   saved_cookie |-> "null"]]
    /\ hci_queue = {}
    /\ completed_reqs = << >>
    /\ callback_thread_completion = FALSE
    /\ callback_thread_stop = FALSE
    /\ callback_lock = NoThread
    /\ cb_pc = "wait"
    /\ cb_done = FALSE
    /\ temp_list = << >>
    /\ hci_pc = "idle"
    /\ hci_req = NoReq
    /\ stop_pc = "idle"
    /\ submits = 0
    /\ client_set = [r \in Requests |-> [cb |-> "null", cookie |-> "null"]]
    /\ hci_log = << >>
    /\ cb_log = << >>

\* the steps of callback_thread
CallbackThread ==
    \/ callback_thread_wait
    \/ callback_thread_lock
    \/ callback_thread_reset
    \/ callback_thread_snapshot
    \/ callback_thread_complete
    \/ callback_thread_loop

\* the steps of request_complete on the HCI thread
HciRequestComplete ==
    \/ request_complete_lock
    \/ request_complete_push
    \/ request_complete_signal

\* the steps of stop_callback_thread once it holds callback_lock
StopCallbackThreadRest ==
    \/ stop_callback_thread_set
    \/ stop_callback_thread_signal
    \/ stop_callback_thread_join

NextRelay ==
    \/ \E r \in Requests, cb \in ClientCallbacks :
           usb_device_request_queue(r, cb, ClientCookie(cb))
    \/ \E r \in Requests : hci_complete(r)
    \/ request_complete_lock
    \/ request_complete_push
    \/ request_complete_signal
    \/ callback_thread_wait
    \/ callback_thread_lock
    \/ callback_thread_reset
    \/ callback_thread_snapshot
    \/ callback_thread_complete
    \/ callback_thread_loop
    \/ stop_callback_thread_lock
    \/ stop_callback_thread_set
    \/ stop_callback_thread_signal
    \/ stop_callback_thread_join

\* Every machine in its initial state
\* the interface numbers of the largest configuration and the value of that
\* configuration
AllInterfaceIds == 0..(bNumInterfaces(ConfigDesc(Len(config_descs) - 1)) - 1)
LargestConfigValues == {bConfigurationValue(ConfigDesc(Len(config_descs) - 1))}

\* the registry when the host selects the configuration with the most
\* interfaces after the device was created with a smaller one
NextResize ==
    \/ \E w \in Threads : usb_device_add_interfaces_start(w)
    \/ \E w \in Threads : usb_device_add_interfaces_return(w)
    \/ \E w \in Threads : usb_device_add_interfaces_other(w)
    \/ \E w \in Threads, status \in AddStatuses :
           usb_device_add_interfaces_assoc(w, status)
    \/ \E w \in Threads : usb_device_add_interfaces_assoc_no_memory(w)
    \/ \E w \in Threads : usb_device_add_interfaces_read(w)
    \/ \E w \in Threads : usb_device_add_interfaces_intf_no_memory(w)
    \/ \E w \in Threads, status \in AddStatuses :
           usb_device_add_interfaces_add(w, status)
    \/ \E w \in Threads : usb_device_add_interfaces_recheck(w)
    \/ \E interface_id \in AllInterfaceIds :
           usb_device_claim_interface(interface_id)
    \/ \E w \in ConfigThreads, config \in LargestConfigValues :
           usb_device_set_configuration_select(w, config)
    \/ \E w \in Threads : usb_device_remove_interfaces_lock(w)
    \/ \E w \in Threads : usb_device_remove_interfaces_remove(w)
    \/ \E w \in Threads : usb_device_remove_interfaces_unlock(w)
    \/ \E w \in Threads : usb_device_set_configuration_memset(w)

\* ------------------------------------------------------------------------
\* The walk of usb_device_add_interfaces as a function of the configuration:
\* the groups it hands to usb_device_add_interface_association and
\* usb_device_add_interface when every interface is AVAILABLE
\* ------------------------------------------------------------------------

\* the descriptor items a configuration is made of: an interface without
\* endpoints, an interface with an endpoint, alternate setting 1 of the
\* interface before it with an endpoint, an association of one interface and
\* of two, an OTG descriptor
Items == {"intf", "intf_ep", "alt_ep", "iad1", "iad2", "otg"}
TopLevelItems == {"intf", "intf_ep"}
AssociationItems == {"iad1", "iad2"}
ItemInterfaceCount(item) == IF item = "iad1" THEN 1 ELSE 2

\* the top-level interfaces that follow position i up to the next
\* association or the end
RECURSIVE InterfacesAfter(_, _)
InterfacesAfter(items, i) ==
    IF i >= Len(items) \/ items[i + 1] \in AssociationItems THEN 0
    ELSE (IF items[i + 1] \in TopLevelItems THEN 1 ELSE 0)
         + InterfacesAfter(items, i + 1)

\* A configuration a device may send: an alternate setting follows its
\* interface, an association is followed by the interfaces it counts, and
\* there is one OTG descriptor at most.
WellFormed(items) ==
    /\ \A i \in 1..Len(items) :
           items[i] = "alt_ep" => i > 1 /\ items[i - 1] \in TopLevelItems
    /\ \A i \in 1..Len(items) :
           items[i] \in AssociationItems =>
               InterfacesAfter(items, i) >= ItemInterfaceCount(items[i])
    /\ Cardinality({i \in 1..Len(items) : items[i] = "otg"}) <= 1

\* the bytes of the items from position k on; num is the number of the next
\* top-level interface
RECURSIVE ItemBytes(_, _, _)
ItemBytes(items, k, num) ==
    IF k > Len(items) THEN << >>
    ELSE IF items[k] = "intf"
         THEN usb_interface_descriptor_t(num, 0, 0)
              \o ItemBytes(items, k + 1, num + 1)
    ELSE IF items[k] = "intf_ep"
         THEN usb_interface_descriptor_t(num, 0, 1)
              \o usb_endpoint_descriptor_t(129 + num)
              \o ItemBytes(items, k + 1, num + 1)
    ELSE IF items[k] = "alt_ep"
         THEN usb_interface_descriptor_t(num - 1, 1, 1)
              \o usb_endpoint_descriptor_t(129 + num - 1)
              \o ItemBytes(items, k + 1, num)
    ELSE IF items[k] \in AssociationItems
         THEN usb_interface_assoc_descriptor_t(num, ItemInterfaceCount(items[k]))
              \o ItemBytes(items, k + 1, num)
    ELSE IF items[k] = "zero"
         THEN <<0, 0>> \o ItemBytes(items, k + 1, num)
    ELSE usb_otg_descriptor_t \o ItemBytes(items, k + 1, num)

\* the configurations that are walked: every well-formed one of MaxItems
\* items at most
WalkedConfigs ==
    { usb_configuration_descriptor_t(
          1, Cardinality({i \in 1..Len(items) : items[i] \in TopLevelItems}),
          ItemBytes(items, 1, 0)) :
      items \in {it \in UNION {[1..n -> Items] : n \in 0..MaxItems} :
                    WellFormed(it)} }

\* memcpy(copy, desc + header, length), lines 391 and 426
memcpy(desc, header, length) == SubSeq(desc, header + 1, header + length)

\* the group handed to usb_device_add_interface_association (line 393) or to
\* usb_device_add_interface (line 427): the copy of length bytes from header
Group(association, desc, header, next) ==
    [association |-> association, from |-> header, length |-> next - header,
     copy |-> memcpy(desc, header, next - header)]

\* The inner loop of the association branch, lines 372-387, never ends: it
\* comes to a descriptor with bLength 0 at which it does not stop, and
\* NEXT_DESCRIPTOR leaves next where it is.
RECURSIVE AssociationLoopSpins(_, _, _, _)
AssociationLoopSpins(desc, next, end, interface_count) ==
    IF next >= end THEN FALSE
    ELSE IF bDescriptorType(desc, next) = USB_DT_INTERFACE_ASSOCIATION THEN FALSE
    ELSE IF /\ bDescriptorType(desc, next) = USB_DT_INTERFACE
            /\ bAlternateSetting(desc, next) = 0
            /\ interface_count = 0
         THEN FALSE
    ELSE IF bLength(desc, next) = 0 THEN TRUE
    ELSE AssociationLoopSpins(
             desc, NEXT_DESCRIPTOR(desc, next), end,
             IF /\ bDescriptorType(desc, next) = USB_DT_INTERFACE
                /\ bAlternateSetting(desc, next) = 0
             THEN interface_count - 1 ELSE interface_count)

\* the same for the inner loop of the interface branch, lines 403-414
RECURSIVE InterfaceLoopSpins(_, _, _)
InterfaceLoopSpins(desc, next, end) ==
    IF next >= end THEN FALSE
    ELSE IF /\ bDescriptorType(desc, next) = USB_DT_INTERFACE
            /\ bAlternateSetting(desc, next) = 0
         THEN FALSE
    ELSE IF bLength(desc, next) = 0 THEN TRUE
    ELSE InterfaceLoopSpins(desc, NEXT_DESCRIPTOR(desc, next), end)

\* usb_device_add_interfaces is called, lines 359-364
WalkerStart(config) ==
    [config |-> config, header |-> NEXT_DESCRIPTOR(config, 0),
     groups |-> << >>, pc |-> "walk", result |-> "ZX_OK"]

WalkerAt(type) ==
    /\ walker.pc = "walk"
    /\ walker.header < wTotalLength(walker.config)
    /\ bDescriptorType(walker.config, walker.header) = type

\* the walk is at a descriptor from which the code does not come back to
\* the test of the outer loop with header moved on: the inner loop of its
\* branch never ends, or it is a descriptor of another type with bLength 0
WalkerStuck ==
    LET desc == walker.config
        header == walker.header
        end == wTotalLength(desc)
    IN /\ walker.pc = "walk"
       /\ header < end
       /\ IF bDescriptorType(desc, header) = USB_DT_INTERFACE_ASSOCIATION
          THEN bLength(desc, header) = 0
               \/ AssociationLoopSpins(desc, NEXT_DESCRIPTOR(desc, header), end,
                                       bInterfaceCount(desc, header))
          ELSE IF bDescriptorType(desc, header) = USB_DT_INTERFACE
          THEN bLength(desc, header) = 0
               \/ InterfaceLoopSpins(desc, NEXT_DESCRIPTOR(desc, header), end)
          ELSE bLength(desc, header) = 0

\* lines 367-399: an association group from header to the end of the
\* association
WalkAssociation ==
    /\ WalkerAt(USB_DT_INTERFACE_ASSOCIATION)
    /\ ~WalkerStuck
    /\ LET desc == walker.config
           next == AssociationEnd(desc, NEXT_DESCRIPTOR(desc, walker.header),
                                  wTotalLength(desc),
                                  bInterfaceCount(desc, walker.header))
       IN walker' = [walker EXCEPT
                        !.groups = Append(@, Group(TRUE, desc, walker.header, next)),
                        !.header = next]
    /\ UNCHANGED notWalkerVars

\* a walk that goes on one descriptor after the end of the group
WalkInterfaceSkips ==
    /\ WalkerAt(USB_DT_INTERFACE)
    /\ LET desc == walker.config
           next == InterfaceEnd(desc, NEXT_DESCRIPTOR(desc, walker.header),
                                wTotalLength(desc))
       IN walker' = [walker EXCEPT
                        !.groups = Append(@, Group(FALSE, desc, walker.header, next)),
                        !.header = IF next < wTotalLength(desc)
                                   THEN NEXT_DESCRIPTOR(desc, next) ELSE next]
    /\ UNCHANGED notWalkerVars

\* lines 400-446 with the interface AVAILABLE and not claimed meanwhile: an
\* interface group from header to the next top-level interface
WalkInterface ==
    /\ WalkerAt(USB_DT_INTERFACE)
    /\ ~WalkerStuck
    /\ LET desc == walker.config
           next == InterfaceEnd(desc, NEXT_DESCRIPTOR(desc, walker.header),
                                wTotalLength(desc))
       IN walker' = [walker EXCEPT
                        !.groups = Append(@, Group(FALSE, desc, walker.header, next)),
                        !.header = next]
    /\ UNCHANGED notWalkerVars

\* lines 389-390 and 424-425: malloc of the copy fails and the walk ends
WalkNoMemory ==
    /\ \/ WalkerAt(USB_DT_INTERFACE_ASSOCIATION)
       \/ WalkerAt(USB_DT_INTERFACE)
    /\ ~WalkerStuck
    /\ walker' = [walker EXCEPT !.pc = "returned",
                                !.result = "ZX_ERR_NO_MEMORY"]
    /\ UNCHANGED notWalkerVars

\* lines 447-449: a descriptor of another type is skipped
WalkOther ==
    /\ walker.pc = "walk"
    /\ walker.header < wTotalLength(walker.config)
    /\ bDescriptorType(walker.config, walker.header)
           \notin {USB_DT_INTERFACE_ASSOCIATION, USB_DT_INTERFACE}
    /\ ~WalkerStuck
    /\ walker' = [walker EXCEPT
                     !.header = NEXT_DESCRIPTOR(walker.config, walker.header)]
    /\ UNCHANGED notWalkerVars

\* lines 366 and 452: header reached end
WalkReturn ==
    /\ walker.pc = "walk"
    /\ walker.header >= wTotalLength(walker.config)
    /\ walker' = [walker EXCEPT !.pc = "returned"]
    /\ UNCHANGED notWalkerVars

\* lines 366-449 at a descriptor with bLength 0: NEXT_DESCRIPTOR adds 0, the
\* loop that is at it tests the same descriptor again and again, and the
\* function never returns
WalkLoopsForever ==
    /\ WalkerStuck
    /\ walker' = [walker EXCEPT !.pc = "loops_forever"]
    /\ UNCHANGED notWalkerVars

NextWalk ==
    \/ WalkAssociation
    \/ WalkInterface
    \/ WalkNoMemory
    \/ WalkOther
    \/ WalkReturn

\* the walk of the first configuration, not begun
InitWalker == walker = WalkerStart(ConfigDesc(0))
\* the walk of any of the configurations, not begun
InitWalkedConfigs == walker \in {WalkerStart(config) : config \in WalkedConfigs}

\* the item sequences of the well-formed configurations
WellFormedItems ==
    {items \in UNION {[1..n -> Items] : n \in 0..MaxItems} : WellFormed(items)}

\* a configuration made of items
ItemConfig(items) ==
    usb_configuration_descriptor_t(
        1, Cardinality({i \in 1..Len(items) : items[i] \in TopLevelItems}),
        ItemBytes(items, 1, 0))

\* items with a descriptor of bLength 0 put in after the first j of them
WithZeroLength(items, j) ==
    SubSeq(items, 1, j) \o <<"zero">> \o SubSeq(items, j + 1, Len(items))

\* The memory after the malloc'ed configuration, which the walk reads when a
\* descriptor straddles the end: HeapLength bytes, all 0 or all 4.
HeapLength == 12
Heaps == {[i \in 1..HeapLength |-> fill] : fill \in {0, 4}}

\* A configuration whose wTotalLength is cut bytes short of the end of its
\* last descriptor, as it lies in memory: malloc(wTotalLength) bytes read
\* from the device (lines 812-820), then the heap.
Straddling(config, cut, heap) ==
    [i \in 1..(Len(config) - cut) |->
        IF i = 3 THEN (Len(config) - cut) % 256
        ELSE IF i = 4 THEN (Len(config) - cut) \div 256
        ELSE config[i]] \o heap

\* the bytes by which wTotalLength is short
Cuts == {1, 2}

\* the malformed configurations a device may send: one descriptor has
\* bLength 0, or the last descriptor straddles wTotalLength
MalformedConfigs ==
    UNION { { ItemConfig(WithZeroLength(items, j)) \o heap :
                  j \in 0..Len(items), heap \in Heaps } :
            items \in WellFormedItems }
    \cup
    { Straddling(ItemConfig(items), cut, heap) :
          items \in WellFormedItems \ {<< >>}, cut \in Cuts, heap \in Heaps }

NextMalformed ==
    \/ WalkAssociation
    \/ WalkInterface
    \/ WalkNoMemory
    \/ WalkOther
    \/ WalkReturn
    \/ WalkLoopsForever

\* the walk of any of the malformed configurations, not begun
InitMalformedConfigs ==
    walker \in {WalkerStart(config) : config \in MalformedConfigs}

\* ------------------------------------------------------------------------
\* Device creation and teardown: usb_device_add (usb-device.c:767-925),
\* usb_composite_bind (usb-composite.c:256-385), usb_device_release
\* ------------------------------------------------------------------------

\* the configurations a created device has at most
MaxConfigurations == 2

\* A zx_status_t.  ZX_OK is 0 and the errors are negative; usb-device.c also
\* stores the byte count of a descriptor read in one, which is positive.
zx_status_t(name) == [name |-> name, actual |-> 0]
Transferred(actual) ==
    [name |-> IF actual = 0 THEN "ZX_OK" ELSE "positive", actual |-> actual]

\* sizeof(usb_device_descriptor_t) and sizeof(usb_configuration_descriptor_t)
sizeof_device_desc == 18
sizeof_config_desc_header == 9

\* What a descriptor read of size bytes gives: all of them, fewer (none, or
\* all but one), or the error of the control transfer.
usb_util_get_descriptor(size) ==
    {Transferred(size), Transferred(size - 1), Transferred(0),
     zx_status_t("ZX_ERR_IO_REFUSED")}

\* fewer bytes than asked for came, without an error
ShortRead(outcome, size) ==
    outcome.name \in {"ZX_OK", "positive"} /\ outcome.actual < size

\* The status with which creation goes to its error exit after a read that
\* did not give size bytes.  usb-device.c keeps what usb_util_get_descriptor
\* returned (lines 787-792, 806-810, 819-823); usb-composite.c keeps the error
\* of usb_get_descriptor and makes ZX_ERR_IO of a short read (lines 289-296,
\* 308-315).
FetchStatus(driver, outcome, size) ==
    IF driver = "usb-device" THEN outcome
    ELSE IF ShortRead(outcome, size) THEN zx_status_t("ZX_ERR_IO")
    ELSE outcome

\* the configuration descriptor with a bConfigurationValue that a created
\* device sends: one interface
AddedConfig(value) ==
    usb_configuration_descriptor_t(value, 1, usb_interface_descriptor_t(0, 0, 0))

\* the bConfigurationValues of the created devices
AddedValues == {1, 2, 3}

\* The devices that are created: the Realtek dongle and another product of
\* the vendor, with up to MaxConfigurations configurations of any values.
AddedDevices ==
    { [idVendor |-> 3034, idProduct |-> idProduct,
       bNumConfigurations |-> Len(values),
       configs |-> [i \in 1..Len(values) |-> AddedConfig(values[i])]] :
          idProduct \in {33106, 33107},
          values \in UNION {[1..n -> AddedValues] : n \in 0..MaxConfigurations} }

Drivers == {"usb-device", "usb-composite"}

\* usb_device_add or usb_composite_bind is called for a device
AdderStart(driver, device) ==
    [ driver |-> driver, device |-> device, pc |-> "calloc_dev",
      config |-> 0, configuration |-> 0, current_config_index |-> 0,
      status |-> zx_status_t("none"), ret |-> zx_status_t("none"),
      dev |-> FALSE, configs |-> FALSE, config_descs |-> {},
      interface_statuses |-> FALSE,
      callback_thread |-> "none", published |-> FALSE,
      set_configuration |-> << >>, cur_config |-> << >>, children |-> 0,
      short_read |-> FALSE, removed |-> FALSE ]

\* return status
AdderReturn(a, status) == [a EXCEPT !.pc = "returned", !.ret = status]
\* status = ...; goto error_exit
AdderErrorExit(a, status) == [a EXCEPT !.pc = "error_exit", !.status = status]

\* stop_callback_thread without the thrd_join
stop_callback_thread_unjoined(a) == a

\* stop_callback_thread, lines 76-83: returns when the thread has ended
stop_callback_thread(a) == [a EXCEPT !.callback_thread = "joined"]

\* the value sent is the chosen configuration number
SetConfigurationNumber(device, index) == index + 1

\* the value sent with SET_CONFIGURATION, lines 846-848:
\* configs[dev->current_config_index]->bConfigurationValue
SetConfigurationValue(device, index) == bConfigurationValue(device.configs[index + 1])

\* lines 770-773 (usb-composite.c:263-266): calloc of the device record
usb_device_add_calloc_dev(ok) ==
    /\ adder.pc = "calloc_dev"
    /\ adder' = IF ok
                THEN [adder EXCEPT
                         !.dev = TRUE,
                         !.pc = IF adder.driver = "usb-device"
                                THEN "read_device_desc" ELSE "calloc_configs"]
                ELSE AdderReturn(adder, zx_status_t("ZX_ERR_NO_MEMORY"))
    /\ UNCHANGED notAdderVars

\* lines 784-792: read of the device descriptor; usb_composite_bind copies
\* the one its parent holds and has no such read
usb_device_add_read_device_desc(outcome) ==
    /\ adder.pc = "read_device_desc"
    /\ adder' = IF outcome = Transferred(sizeof_device_desc)
                THEN [adder EXCEPT !.pc = "calloc_configs"]
                ELSE [AdderReturn(adder, outcome) EXCEPT
                         !.dev = FALSE,
                         !.short_read = ShortRead(outcome, sizeof_device_desc)]
    /\ UNCHANGED notAdderVars

\* lines 794-800 (usb-composite.c:275-281): calloc of configs
usb_device_add_calloc_configs(ok) ==
    /\ adder.pc = "calloc_configs"
    /\ adder' = IF ok
                THEN [adder EXCEPT
                         !.configs = TRUE,
                         !.config = 0,
                         !.pc = IF 0 < adder.device.bNumConfigurations
                                THEN "read_header" ELSE "choose"]
                ELSE AdderErrorExit(adder, zx_status_t("ZX_ERR_NO_MEMORY"))
    /\ UNCHANGED notAdderVars

\* lines 803-810 (usb-composite.c:284-296): read of the header of
\* configuration config
usb_device_add_read_header(outcome) ==
    /\ adder.pc = "read_header"
    /\ adder' = IF outcome = Transferred(sizeof_config_desc_header)
                THEN [adder EXCEPT !.pc = "malloc_config"]
                ELSE [AdderErrorExit(adder, FetchStatus(adder.driver, outcome,
                                                        sizeof_config_desc_header))
                         EXCEPT !.short_read =
                                    ShortRead(outcome, sizeof_config_desc_header)]
    /\ UNCHANGED notAdderVars

\* lines 811-817 (usb-composite.c:297-303): malloc of configuration config
usb_device_add_malloc_config(ok) ==
    /\ adder.pc = "malloc_config"
    /\ adder' = IF ok
                THEN [adder EXCEPT
                         !.config_descs = @ \cup {adder.config},
                         !.pc = "read_config"]
                ELSE AdderErrorExit(adder, zx_status_t("ZX_ERR_NO_MEMORY"))
    /\ UNCHANGED notAdderVars

\* the size of the configuration that is read
config_desc_size == wTotalLength(adder.device.configs[adder.config + 1])

\* lines 819-826 (usb-composite.c:305-316): read of the whole of
\* configuration config, and the for loop's step
usb_device_add_read_config(outcome) ==
    /\ adder.pc = "read_config"
    /\ outcome \in usb_util_get_descriptor(config_desc_size)
    /\ adder' = IF outcome = Transferred(config_desc_size)
                THEN [adder EXCEPT
                         !.config = @ + 1,
                         !.pc = IF adder.config + 1 < adder.device.bNumConfigurations
                                THEN "read_header" ELSE "choose"]
                ELSE [AdderErrorExit(adder, FetchStatus(adder.driver, outcome,
                                                        config_desc_size))
                         EXCEPT !.short_read = ShortRead(outcome, config_desc_size)]
    /\ UNCHANGED notAdderVars

\* lines 828-843 (usb-composite.c:318-333): the configuration number is
\* chosen and checked
usb_device_add_choose ==
    /\ adder.pc = "choose"
    /\ adder' = IF usb_device_add_check(adder.device) = "ZX_ERR_INTERNAL"
                THEN [AdderReturn(adder, zx_status_t("ZX_ERR_INTERNAL")) EXCEPT
                         !.configuration = configuration(adder.device)]
                ELSE [adder EXCEPT
                         !.configuration = configuration(adder.device),
                         !.current_config_index = configuration(adder.device) - 1,
                         !.pc = "set_configuration"]
    /\ UNCHANGED notAdderVars

\* lines 845-852 (usb-composite.c:335-340): SET_CONFIGURATION is sent
usb_device_add_set_configuration(ok) ==
    /\ adder.pc = "set_configuration"
    /\ LET sent == [adder EXCEPT
                       !.set_configuration =
                           <<SetConfigurationValue(adder.device,
                                                   adder.current_config_index)>>]
       IN adder' = IF ok
                   THEN [sent EXCEPT !.pc = "calloc_statuses"]
                   ELSE AdderErrorExit(sent, zx_status_t("ZX_ERR_IO_REFUSED"))
    /\ UNCHANGED notAdderVars

\* lines 864-872 (usb-composite.c:349-357): calloc of interface_statuses
usb_device_add_calloc_statuses(ok) ==
    /\ adder.pc = "calloc_statuses"
    /\ adder' = IF ok
                THEN [adder EXCEPT
                         !.interface_statuses = TRUE,
                         !.pc = IF adder.driver = "usb-device"
                                THEN "start_callback_thread" ELSE "device_add"]
                ELSE AdderErrorExit(adder, zx_status_t("ZX_ERR_NO_MEMORY"))
    /\ UNCHANGED notAdderVars

\* line 876: start_callback_thread
usb_device_add_start_callback_thread ==
    /\ adder.pc = "start_callback_thread"
    /\ adder' = [adder EXCEPT !.callback_thread = "running", !.pc = "device_add"]
    /\ UNCHANGED notAdderVars

\* lines 904-910 (usb-composite.c:370-373): device_add publishes the device
\* or fails
usb_device_add_device_add(ok) ==
    /\ adder.pc = "device_add"
    /\ adder' = IF ok
                THEN [adder EXCEPT !.published = TRUE, !.pc = "add_interfaces"]
                ELSE [adder EXCEPT
                         !.status = zx_status_t("ZX_ERR_NO_MEMORY"),
                         !.pc = IF adder.driver = "usb-device"
                                THEN "stop_callback_thread" ELSE "error_exit"]
    /\ UNCHANGED notAdderVars

\* lines 908-909: stop_callback_thread(dev); goto error_exit
usb_device_add_stop_callback_thread ==
    /\ adder.pc = "stop_callback_thread"
    /\ adder' = [stop_callback_thread(adder) EXCEPT !.pc = "error_exit"]
    /\ UNCHANGED notAdderVars

\* lines 914-924 (usb-composite.c:375-384): error_exit frees the
\* configurations, configs, interface_statuses and the device record
usb_device_add_error_exit ==
    /\ adder.pc = "error_exit"
    /\ adder' = [AdderReturn(adder, adder.status) EXCEPT
                    !.config_descs = {},
                    !.configs = FALSE,
                    !.interface_statuses = FALSE,
                    !.dev = FALSE]
    /\ UNCHANGED notAdderVars

\* line 912 (usb-composite.c:372): return usb_device_add_interfaces(dev,
\* cur_config), which publishes count children and returns status
usb_device_add_add_interfaces(count, status) ==
    /\ adder.pc = "add_interfaces"
    /\ adder' = [AdderReturn(adder, zx_status_t(status)) EXCEPT
                    !.cur_config = <<adder.current_config_index>>,
                    !.children = count]
    /\ UNCHANGED notAdderVars

\* usb_device_remove, declared in usb-device.h:80: the bus takes the device
\* away; the children are retracted and the device is removed from the
\* framework
usb_device_remove ==
    /\ adder.pc = "returned"
    /\ adder.published
    /\ ~adder.removed
    /\ adder' = [adder EXCEPT !.children = 0, !.removed = TRUE]
    /\ UNCHANGED notAdderVars

\* the framework calls the release hook of a device: after the device was
\* removed from it
FrameworkReleases == adder.pc = "returned" /\ adder.removed

\* usb_device_release, lines 332-335: release stops the callback thread;
\* usb-composite.c has no callback thread
usb_device_release_stop ==
    /\ FrameworkReleases
    /\ adder' = [(IF adder.driver = "usb-device"
                  THEN stop_callback_thread(adder) ELSE adder)
                    EXCEPT !.pc = "release"]
    /\ UNCHANGED notAdderVars

\* usb_device_release, lines 337-346 (usb-composite.c:139-148): the frees
usb_device_release_free ==
    /\ adder.pc = "release"
    /\ adder' = [adder EXCEPT
                    !.config_descs = {},
                    !.configs = FALSE,
                    !.interface_statuses = FALSE,
                    !.dev = FALSE,
                    !.pc = "released"]
    /\ UNCHANGED notAdderVars

NextAdd ==
    \/ \E ok \in BOOLEAN : usb_device_add_calloc_dev(ok)
    \/ \E outcome \in usb_util_get_descriptor(sizeof_device_desc) :
           usb_device_add_read_device_desc(outcome)
    \/ \E ok \in BOOLEAN : usb_device_add_calloc_configs(ok)
    \/ \E outcome \in usb_util_get_descriptor(sizeof_config_desc_header) :
           usb_device_add_read_header(outcome)
    \/ \E ok \in BOOLEAN : usb_device_add_malloc_config(ok)
    \/ \E outcome \in UNION {usb_util_get_descriptor(wTotalLength(AddedConfig(value))) :
                               value \in AddedValues} :
           usb_device_add_read_config(outcome)
    \/ usb_device_add_choose
    \/ \E ok \in BOOLEAN : usb_device_add_set_configuration(ok)
    \/ \E ok \in BOOLEAN : usb_device_add_calloc_statuses(ok)
    \/ usb_device_add_start_callback_thread
    \/ \E ok \in BOOLEAN : usb_device_add_device_add(ok)
    \/ usb_device_add_stop_callback_thread
    \/ usb_device_add_error_exit
    \/ \E count \in 0..1, status \in AddStatuses :
           usb_device_add_add_interfaces(count, status)
    \/ usb_device_remove
    \/ usb_device_release_stop
    \/ usb_device_release_free

\* no device is being created
InitAdder == adder = [AdderStart("usb-device", CHOOSE device \in AddedDevices :
                                     device.bNumConfigurations = 0)
                         EXCEPT !.pc = "idle"]

\* usb_device_add or usb_composite_bind is called for any of the devices
InitAddedDevices ==
    adder \in {AdderStart(driver, device) : driver \in Drivers, device \in AddedDevices}

\* ------------------------------------------------------------------------
\* usb_device_ioctl (usb-device.c:189-324)
\* ------------------------------------------------------------------------

\* sizeof(int), sizeof(uint64_t), sizeof(usb_ioctl_get_string_desc_req_t)
\* and sizeof(usb_ioctl_get_string_desc_resp_t)
sizeof_int == 4
sizeof_uint64_t == 8
sizeof_get_string_desc_req == 4
sizeof_get_string_desc_resp == 4

\* the operations with a case in the switch that write to out_buf
OutputOps ==
    {"IOCTL_USB_GET_DEVICE_TYPE", "IOCTL_USB_GET_DEVICE_SPEED",
     "IOCTL_USB_GET_DEVICE_DESC", "IOCTL_USB_GET_CONFIG_DESC_SIZE",
     "IOCTL_USB_GET_DESCRIPTORS_SIZE", "IOCTL_USB_GET_CONFIG_DESC",
     "IOCTL_USB_GET_DESCRIPTORS", "IOCTL_USB_GET_STRING_DESC",
     "IOCTL_USB_GET_CURRENT_FRAME", "IOCTL_USB_GET_DEVICE_ID",
     "IOCTL_USB_GET_DEVICE_HUB_ID", "IOCTL_USB_GET_CONFIGURATION"}

\* the operations a caller passes: those, the two that set, and one with no
\* case
IoctlOps ==
    OutputOps \cup {"IOCTL_USB_SET_INTERFACE", "IOCTL_USB_SET_CONFIGURATION",
                    "IOCTL_USB_GET_DEVICE_BOGUS"}

\* get_config_desc, lines 110-119: the configurations with the value, empty
\* for NULL
get_config_desc(config) ==
    {i \in 0..(device_desc.bNumConfigurations - 1) :
        bConfigurationValue(ConfigDesc(i)) = config}

\* return status, nothing written
IoctlReturn(status) == [status |-> status, written |-> 0, out_actual |-> 0]
\* the reply of length bytes is written to out_buf; return ZX_OK
IoctlReply(length) == [status |-> "ZX_OK", written |-> length, out_actual |-> length]

\* a reply of a fixed size with the test out_len < sizeof(*reply)
IoctlFixed(out_len, size) ==
    IF out_len < size THEN IoctlReturn("ZX_ERR_BUFFER_TOO_SMALL") ELSE IoctlReply(size)

\* usb_device_ioctl, lines 189-324, by the case of op.  in_buf is the int
\* read from the input, result what usb_util_get_string_descriptor returns.
\* written is the count of bytes of out_buf, from its start, that were
\* written.
usb_device_ioctl(op, in_buf, in_len, out_len, result) ==
    IF op \in {"IOCTL_USB_GET_DEVICE_TYPE", "IOCTL_USB_GET_DEVICE_SPEED"}
    THEN IoctlFixed(out_len, sizeof_int)
    ELSE IF op = "IOCTL_USB_GET_DEVICE_DESC"
    THEN IoctlFixed(out_len, sizeof_device_desc)
    ELSE IF op = "IOCTL_USB_GET_CONFIG_DESC_SIZE"
    THEN IF in_len # sizeof_int THEN IoctlReturn("ZX_ERR_INVALID_ARGS")
         ELSE IF get_config_desc(in_buf) = {} THEN IoctlReturn("ZX_ERR_INVALID_ARGS")
         ELSE IoctlReply(sizeof_int)
    ELSE IF op = "IOCTL_USB_GET_DESCRIPTORS_SIZE"
    THEN IoctlFixed(out_len, sizeof_int)
    ELSE IF op = "IOCTL_USB_GET_CONFIG_DESC"
    THEN IF in_len # sizeof_int THEN IoctlReturn("ZX_ERR_INVALID_ARGS")
         ELSE IF get_config_desc(in_buf) = {} THEN IoctlReturn("ZX_ERR_INVALID_ARGS")
         ELSE IoctlFixed(out_len, wTotalLength(ConfigDesc(config_index(in_buf))))
    ELSE IF op = "IOCTL_USB_GET_DESCRIPTORS"
    THEN IoctlFixed(out_len, wTotalLength(ConfigDesc(current_config_index)))
    ELSE IF op = "IOCTL_USB_GET_STRING_DESC"
    THEN IF in_len # sizeof_get_string_desc_req THEN IoctlReturn("ZX_ERR_INVALID_ARGS")
         ELSE IF out_len < sizeof_get_string_desc_resp
              THEN IoctlReturn("ZX_ERR_INVALID_ARGS")
         ELSE IF result # "ZX_OK"
              THEN [status |-> result, written |-> out_len, out_actual |-> 0]
         ELSE IoctlReply(out_len)
    ELSE IF op = "IOCTL_USB_SET_INTERFACE"
    THEN IF in_len # 2 * sizeof_int THEN IoctlReturn("ZX_ERR_INVALID_ARGS")
         ELSE IoctlReturn("usb_device_set_interface")
    ELSE IF op \in {"IOCTL_USB_GET_CURRENT_FRAME", "IOCTL_USB_GET_DEVICE_ID",
                    "IOCTL_USB_GET_DEVICE_HUB_ID"}
    THEN IoctlFixed(out_len, sizeof_uint64_t)
    ELSE IF op = "IOCTL_USB_GET_CONFIGURATION"
    THEN IF out_len # sizeof_int THEN IoctlReturn("ZX_ERR_INVALID_ARGS")
         ELSE IoctlReply(sizeof_int)
    ELSE IF op = "IOCTL_USB_SET_CONFIGURATION"
    THEN IF in_len # sizeof_int THEN IoctlReturn("ZX_ERR_INVALID_ARGS")
         ELSE IoctlReturn("usb_device_set_configuration")
    ELSE IoctlReturn("ZX_ERR_NOT_SUPPORTED")

\* what usb_util_get_string_descriptor returns
StringResults == {"ZX_OK", "ZX_ERR_IO"}

\* the lengths of the buffers a caller passes: none, and each size of a
\* reply, one less and one more
ReplySizes ==
    {sizeof_int, sizeof_uint64_t, sizeof_device_desc}
        \cup {wTotalLength(config_descs[i]) : i \in 1..Len(config_descs)}
BufferLengths ==
    {0} \cup UNION {{size - 1, size, size + 1} : size \in ReplySizes}

\* a call of usb_device_ioctl that has not begun
IoctlCall(op, in_buf, in_len, out_len) ==
    [ op |-> op, in_buf |-> in_buf, in_len |-> in_len, out_len |-> out_len,
      pc |-> "called", status |-> "none", written |-> 0, out_actual |-> 0 ]

\* the call runs to its return
usb_device_ioctl_return(result) ==
    /\ ioctl.pc = "called"
    /\ LET r == usb_device_ioctl(ioctl.op, ioctl.in_buf, ioctl.in_len,
                                 ioctl.out_len, result)
       IN ioctl' = [ioctl EXCEPT
                       !.pc = "returned",
                       !.status = r.status,
                       !.written = r.written,
                       !.out_actual = r.out_actual]
    /\ UNCHANGED notIoctlVars

NextIoctl ==
    \/ \E result \in StringResults : usb_device_ioctl_return(result)

\* no call of usb_device_ioctl
InitIoctl ==
    ioctl = [IoctlCall("IOCTL_USB_GET_DEVICE_TYPE", 0, 0, 0) EXCEPT !.pc = "idle"]

\* any call of usb_device_ioctl
InitIoctlCalls ==
    ioctl \in {IoctlCall(op, in_buf, in_len, out_len) :
                  op \in IoctlOps, in_buf \in ConfigValues,
                  in_len \in {0, sizeof_int, 2 * sizeof_int},
                  out_len \in BufferLengths}

Init == InitRelay /\ InitControl /\ InitRegistry /\ InitWalker /\ InitAdder /\ InitIoctl
InitMalformed ==
    InitRelay /\ InitControl /\ InitRegistry /\ InitMalformedConfigs /\ InitAdder /\ InitIoctl
InitAdd ==
    InitRelay /\ InitControl /\ InitRegistry /\ InitWalker /\ InitAddedDevices
        /\ InitIoctl
InitIoctls ==
    InitRelay /\ InitControl /\ InitRegistry /\ InitWalker /\ InitAdder
        /\ InitIoctlCalls
InitWalk == InitRelay /\ InitControl /\ InitRegistry /\ InitWalkedConfigs /\ InitAdder /\ InitIoctl

SpecRelay == Init /\ [][NextRelay]_vars

\* The threads are scheduled fairly: a thread that can take its next step
\* takes it.  The HCI need not complete a request and release need not happen.
SpecRelayLive ==
    /\ Init
    /\ [][NextRelay]_vars
    /\ WF_vars(CallbackThread)
    /\ WF_vars(HciRequestComplete)
    /\ WF_vars(StopCallbackThreadRest)

SpecControl == Init /\ [][NextControl]_vars

SpecRegistry == Init /\ [][NextRegistry]_vars

SpecClient == Init /\ [][NextClient]_vars
SpecResize == Init /\ [][NextResize]_vars
SpecWalk == InitWalk /\ [][NextWalk]_vars
SpecMalformed == InitMalformed /\ [][NextMalformed]_vars
SpecAdd == InitAdd /\ [][NextAdd]_vars
SpecIoctl == InitIoctls /\ [][NextIoctl]_vars

\* ------------------------------------------------------------------------
\* Properties of the request relay
\* ------------------------------------------------------------------------

\* the requests whose client callback has run, in the order the callbacks ran
CallbackOrder == [i \in 1..Len(cb_log) |-> cb_log[i].req]

\* a request that has been handed to request_complete and whose client
\* callback has not run yet
AwaitingCallback(r) ==
    \/ r = hci_req
    \/ r \in Range(completed_reqs)
    \/ r \in Range(temp_list)

\* C1 (relay FIFO): the client callbacks run in the order in which the HCI
\* called request_complete: at every moment the sequence of requests whose
\* callback has run is a prefix of the sequence of requests completed by the
\* HCI.
C1_RelayFifo == IsPrefix(CallbackOrder, hci_log)

\* two different requests went through the relay, the second one completed
\* by the HCI before the callback of the first one ran
C1_Witness ==
    /\ Len(cb_log) = 1
    /\ Len(temp_list) = 1
    /\ cb_log[1].req # temp_list[1]

\* C2 (thread hand-off): every client callback runs on the callback thread;
\* the HCI thread never runs one.
C2_CallbackOnlyOnCallbackThread ==
    \A i \in 1..Len(cb_log) : cb_log[i].thread = "callback_thread"

\* a client callback has run while the HCI thread was inside request_complete
\* for another request
C2_Witness ==
    /\ Len(cb_log) >= 1
    /\ hci_pc = "push"

\* C3 (callback and cookie preserved, called once): every client callback that
\* ran was called with the callback and cookie its client had set before
\* submitting, and each completion of a request by the HCI leads to one call:
\* the calls for a request, plus one if it still awaits its callback, are as
\* many as its completions by the HCI.
C3_CallbackPreservedOnce ==
    /\ \A i \in 1..Len(cb_log) :
           /\ cb_log[i].cb = cb_log[i].set_cb
           /\ cb_log[i].cookie = cb_log[i].set_cookie
           /\ cb_log[i].cb \in ClientCallbacks
    /\ \A r \in Requests :
           Count(CallbackOrder, r) + (IF AwaitingCallback(r) THEN 1 ELSE 0)
               = Count(hci_log, r)

\* one request went through the relay twice, with different callbacks
C3_Witness ==
    \E i, j \in 1..Len(cb_log) :
        /\ i < j
        /\ cb_log[i].req = cb_log[j].req
        /\ cb_log[i].cb # cb_log[j].cb

\* C4 (no request stranded): a request that is on completed_reqs while the
\* relay has not been stopped eventually has its client callback called (it
\* leaves completed_reqs and the callback thread's temp list).
C4_RelayLiveness ==
    \A r \in Requests :
        (r \in Range(completed_reqs) /\ ~callback_thread_stop)
            ~> (r \notin Range(completed_reqs) \cup Range(temp_list))

\* the HCI thread has pushed a request and not yet signaled while the
\* callback thread, woken by an earlier signal, is about to reset the
\* completion
C4_Witness ==
    /\ cb_pc = "reset"
    /\ hci_pc = "signal"
    /\ Len(completed_reqs) = 2
    /\ ~callback_thread_stop

\* ------------------------------------------------------------------------
\* Properties of the control transfer engine
\* ------------------------------------------------------------------------

\* C5 (control timeout): a call of usb_device_control whose first wait timed
\* out has, when it returns, called usb_hci_cancel_all once, has had its
\* request's completion delivered by the HCI, and returns ZX_ERR_TIMED_OUT.
C5_TimedOutCancelsWaitsTimedOut ==
    (ctl_pc = "returned" /\ ctl_timed_out)
        => /\ ctl_cancels = 1
           /\ ctl_delivered
           /\ ctl_status = "ZX_ERR_TIMED_OUT"

\* C6 (no release while the HCI holds the request): no request that
\* usb_device_control has put back into the free pool or released is held by
\* the HCI driver.
C6_NotFreedWhileHciHolds ==
    (free_reqs \cup released) \cap hci_ep0 = {}


\* ------------------------------------------------------------------------
\* Properties of the interface registry
\* ------------------------------------------------------------------------

\* a child device in children owns the interface
Owned(interface_id) == ChildrenOf(interface_id) # {}

\* the step that zeroes interface_statuses in usb_device_set_configuration:
\* the configuration switch starts a new epoch of the registry
ResetStep ==
    \E w \in Threads : thr[w].pc = "memset" /\ thr'[w].pc = "add_interfaces"

\* C7 (no publish after claim): when a walk has handled a group, every
\* interface of the group that usb_device_claim_interface had claimed with
\* ZX_OK before the walk came to the group, since the last reset of the
\* statuses, is owned by no child device in children; for the group of one
\* interface and for the interface association alike.
C7_ClaimedNotPublished ==
    \A w \in Threads : \A i \in thr[w].done_claimed : ~Owned(i)

\* C8 (claim/publish race): when usb_device_claim_interface(i) returned
\* ZX_OK after a walk read interface_statuses[i] = AVAILABLE and before its
\* usb_device_add_interface returned, then once the walk has handled the
\* interface, interface_statuses[i] is CLAIMED and no child in children owns
\* i.
C8_RacedClaimRetracted ==
    \A w \in Threads : \A i \in thr[w].done_raced :
        interface_statuses[i] = CLAIMED /\ ~Owned(i)

\* a walk has just removed the child it had added for an interface that was
\* claimed while usb_device_add_interface ran
C8_Witness ==
    \E w \in Threads :
        /\ thr[w].pc = "walk"
        /\ thr[w].done_raced # {}
        /\ next_child > 1
        /\ remove_count[next_child - 1] = 1

\* C9 (registry monotonicity): a step of usb_device_claim_interface, of the
\* walk, of usb_device_remove_interfaces or of usb_device_set_interface
\* leaves a CLAIMED interface CLAIMED; only the reset of the statuses in
\* usb_device_set_configuration, which starts the next epoch, changes it.
C9_ClaimedUntilReset ==
    [][\A i \in DOMAIN interface_statuses :
           interface_statuses[i] = CLAIMED
               => (interface_statuses'[i] = CLAIMED \/ ResetStep)]_vars

\* a walk has passed over an interface that was claimed before, a second
\* claim of it was refused, and it is still CLAIMED
C9_Witness ==
    \E w \in Threads : \E i \in thr[w].done_claimed :
        /\ interface_statuses[i] = CLAIMED
        /\ claim_ret = [interface_id |-> i, status |-> "ZX_ERR_ALREADY_BOUND",
                        removed |-> {}]

\* C10 (claim of a published interface): a call usb_device_claim_interface(i)
\* made when interface_statuses[i] is CHILD_DEVICE and a child in children
\* owns i takes that child, and no other, out of children, calls
\* device_remove on it once and on no other child, changes no status but
\* that of i, which becomes CLAIMED, and returns ZX_OK.
C10_ClaimRemovesPublishedChild ==
    [][\A i \in InterfaceIds :
           (/\ usb_device_claim_interface(i)
            /\ i \in DOMAIN interface_statuses
            /\ interface_statuses[i] = CHILD_DEVICE
            /\ Owned(i))
           => \E k \in ChildrenOf(i) :
                  /\ Len(children') = Len(children) - 1
                  /\ \A j \in 1..Len(children') :
                         children'[j] = children[IF j < k THEN j ELSE j + 1]
                  /\ remove_count' =
                         [remove_count EXCEPT ![children[k].id] = @ + 1]
                  /\ interface_statuses' =
                         [interface_statuses EXCEPT ![i] = CLAIMED]
                  /\ claim_ret'.status = "ZX_OK"
                  /\ claim_ret'.interface_id = i]_vars

\* a claim has removed the child of a published interface, once, and
\* another child is still in children
C10_Witness ==
    /\ claim_ret.status = "ZX_OK"
    /\ claim_ret.removed # {}
    /\ \A id \in claim_ret.removed : remove_count[id] = 1
    /\ interface_statuses[claim_ret.interface_id] = CLAIMED
    /\ children # << >>

\* C11 (claim contention): a call usb_device_claim_interface(i) made when
\* interface_statuses[i] is CLAIMED, or after a claim of i returned ZX_OK
\* since the last reset of the statuses, returns ZX_ERR_ALREADY_BOUND and
\* changes neither interface_statuses nor children.
C11_ClaimedIsAlreadyBound ==
    [][\A i \in InterfaceIds :
           (/\ usb_device_claim_interface(i)
            /\ i \in DOMAIN interface_statuses
            /\ (interface_statuses[i] = CLAIMED \/ i \in claim_ok))
           => (/\ claim_ret' = [interface_id |-> i,
                                status |-> "ZX_ERR_ALREADY_BOUND",
                                removed |-> {}]
               /\ interface_statuses' = interface_statuses
               /\ children' = children)]_vars

\* a claim of an interface that had been claimed with ZX_OK was refused,
\* and a child is in children
C11_Witness ==
    /\ claim_ret.status = "ZX_ERR_ALREADY_BOUND"
    /\ claim_ret.interface_id \in claim_ok
    /\ interface_statuses[claim_ret.interface_id] = CLAIMED
    /\ children # << >>

\* no thread is inside a function of the registry
RegistryQuiet ==
    /\ \A w \in Threads : thr[w].pc = "idle"
    /\ interface_mutex = NoThread

\* the interface numbers of the current configuration
CurrentInterfaces ==
    0..(bNumInterfaces(ConfigDesc(current_config_index)) - 1)

\* C12 (status and children agree): whenever no registry operation is in
\* progress, every interface of the current configuration whose status is
\* CHILD_DEVICE is owned by a child device in children.
C12_ChildDeviceHasChild ==
    RegistryQuiet =>
        \A i \in CurrentInterfaces \cap DOMAIN interface_statuses :
            interface_statuses[i] = CHILD_DEVICE => Owned(i)

\* C13 (the status array covers the configuration): whenever no registry
\* operation is in progress, interface_statuses has an entry for every
\* interface number below bNumInterfaces of the current configuration.
C13_StatusesCoverConfiguration ==
    RegistryQuiet => CurrentInterfaces \subseteq DOMAIN interface_statuses

\* C14 (the current configuration index is valid): current_config_index is
\* always an index below bNumConfigurations of the device, and device
\* creation goes on exactly for the devices whose chosen configuration
\* number lies in 1..bNumConfigurations and ends with ZX_ERR_INTERNAL for
\* the others.
C14_CurrentConfigIndexValid ==
    /\ current_config_index \in 0..(bNumConfigurations - 1)
    /\ \A desc \in Devices :
           IF configuration(desc) \in 1..desc.bNumConfigurations
           THEN usb_device_add_check(desc) = "ZX_OK"
           ELSE usb_device_add_check(desc) = "ZX_ERR_INTERNAL"

\* a successful usb_device_set_configuration selected another configuration
\* than the one of device creation and has returned
C14_Witness ==
    /\ set_configs > 0
    /\ RegistryQuiet
    /\ current_config_index # configuration(device_desc) - 1

\* C15 (control round trip): when usb_device_set_configuration(config) finds
\* the configuration and the control transfer succeeds, GET_CONFIGURATION
\* replies config from the step that stores the index on, the call walks a
\* configuration whose value is config, and when that walk returns ZX_OK
\* GET_CONFIGURATION replies the value of the configuration it walked.
C15_GetConfigurationAfterSet ==
    [][\A w \in ConfigThreads :
          /\ \A config \in ConfigValues :
                 usb_device_set_configuration_select(w, config) =>
                     /\ IOCTL_USB_GET_CONFIGURATION' = config
                     /\ bConfigurationValue(ConfigDesc(thr'[w].config)) = config
          /\ (usb_device_add_interfaces_return(w) /\ thr[w].result = "ZX_OK") =>
                 IOCTL_USB_GET_CONFIGURATION' = bConfigurationValue(WalkDesc(w))
      ]_vars

\* usb_device_set_configuration(2) has returned ZX_OK on a device created
\* with configuration 1
C15_Witness ==
    /\ set_configs > 0
    /\ \A w \in ConfigThreads : thr[w].pc = "idle" /\ thr[w].ret = "ZX_OK"
    /\ configuration(device_desc) = 1
    /\ IOCTL_USB_GET_CONFIGURATION = 2

\* C16 (set_configuration republishes): in a usb_device_set_configuration
\* that selected configuration n, at the reset of the statuses children is
\* empty and every child published so far was removed through the framework
\* exactly once; the reset leaves an AVAILABLE entry of interface_statuses
\* for every interface of configuration n before the walk republishes; and
\* when the walk returns, children holds only children published from the
\* descriptors of configuration n, none of them removed.
C16_SetConfigurationRepublishes ==
    [][\A w \in ConfigThreads :
          /\ usb_device_set_configuration_memset(w) =>
                 /\ children = << >>
                 /\ \A id \in DOMAIN remove_count : remove_count[id] = 1
                 /\ thr'[w].pc = "add_interfaces"
                 /\ \A i \in 0..(bNumInterfaces(WalkDesc(w)) - 1) :
                        /\ i \in DOMAIN interface_statuses'
                        /\ interface_statuses'[i] = AVAILABLE
          /\ (set_configs > 0 /\ usb_device_add_interfaces_return(w)) =>
                 \A k \in 1..Len(children) :
                     /\ children[k].config = current_config_index
                     /\ remove_count[children[k].id] = 0
      ]_vars

\* C17 (unknown configuration): usb_device_set_configuration with a value
\* that no configuration has takes neither the path that issues the
\* SET_CONFIGURATION control transfer nor any later one; it returns
\* ZX_ERR_INVALID_ARGS at once and leaves current_config_index,
\* interface_statuses, children and the control endpoint unchanged.
C17_UnknownConfigurationInvalidArgs ==
    [][\A w \in ConfigThreads, config \in ConfigValues :
          ConfigsWithValue(config) = {} =>
              /\ ~usb_device_set_configuration_control_fails(w, config)
              /\ ~usb_device_set_configuration_select(w, config)
              /\ usb_device_set_configuration_invalid(w, config) =>
                     /\ thr'[w].pc = "idle"
                     /\ thr'[w].ret = "ZX_ERR_INVALID_ARGS"
                     /\ UNCHANGED <<current_config_index, interface_statuses,
                                    children, remove_count, controlVars>>
      ]_vars

\* usb_device_set_configuration returned ZX_ERR_INVALID_ARGS on a device
\* with published children
C17_Witness ==
    /\ set_configs > 0
    /\ \E w \in ConfigThreads :
           thr[w].pc = "idle" /\ thr[w].ret = "ZX_ERR_INVALID_ARGS"
    /\ children # << >>

\* the walk returned after it reached the end of the configuration
WalkDone == walker.pc = "returned" /\ walker.result = "ZX_OK"

\* the offsets of the descriptors of a configuration from header on
RECURSIVE DescriptorOffsets(_, _, _)
DescriptorOffsets(desc, header, end) ==
    IF header >= end THEN {}
    ELSE {header} \cup DescriptorOffsets(desc, NEXT_DESCRIPTOR(desc, header), end)

\* the descriptors of the walked configuration, those of a type, and the
\* groups whose span holds an offset
WalkedOffsets ==
    DescriptorOffsets(walker.config, NEXT_DESCRIPTOR(walker.config, 0),
                      wTotalLength(walker.config))
WalkedOfType(type) ==
    {p \in WalkedOffsets : bDescriptorType(walker.config, p) = type}
GroupsAt(p) ==
    {k \in 1..Len(walker.groups) :
        /\ walker.groups[k].from <= p
        /\ p < walker.groups[k].from + walker.groups[k].length}

\* the numbers of the top-level interfaces in the span of a group
GroupTopLevel(g) ==
    {bInterfaceNumber(walker.config, p) :
        p \in {q \in WalkedOfType(USB_DT_INTERFACE) :
                  /\ g.from <= q
                  /\ q < g.from + g.length
                  /\ bAlternateSetting(walker.config, q) = 0}}

\* C18 (IAD grouping): when the walk of a well-formed configuration has
\* returned, for every interface association descriptor there is exactly one
\* association group that starts at it, and the span of that group holds
\* exactly bInterfaceCount distinct top-level interface numbers.
C18_AssociationGroups ==
    WalkDone =>
        \A p \in WalkedOfType(USB_DT_INTERFACE_ASSOCIATION) :
            /\ Cardinality({k \in 1..Len(walker.groups) :
                               /\ walker.groups[k].association
                               /\ walker.groups[k].from = p}) = 1
            /\ \A k \in 1..Len(walker.groups) :
                   (walker.groups[k].association /\ walker.groups[k].from = p) =>
                       Cardinality(GroupTopLevel(walker.groups[k]))
                           = bInterfaceCount(walker.config, p)

\* the interface descriptor an endpoint descriptor belongs to: the last one
\* before it
InterfaceOf(p) ==
    CHOOSE q \in WalkedOfType(USB_DT_INTERFACE) :
        /\ q < p
        /\ \A r \in WalkedOfType(USB_DT_INTERFACE) : r < p => r <= q

\* C19 (alt-setting merging): when the walk has returned, every interface
\* descriptor lies in exactly one group, interface descriptors with the same
\* bInterfaceNumber lie in the same group, and every endpoint descriptor
\* lies in the group of its interface descriptor.
C19_AlternateSettingsMerged ==
    WalkDone =>
        /\ \A p \in WalkedOfType(USB_DT_INTERFACE) :
               Cardinality(GroupsAt(p)) = 1
        /\ \A p, q \in WalkedOfType(USB_DT_INTERFACE) :
               bInterfaceNumber(walker.config, p)
                   = bInterfaceNumber(walker.config, q)
               => GroupsAt(p) = GroupsAt(q)
        /\ \A p \in WalkedOfType(USB_DT_ENDPOINT) :
               GroupsAt(p) = GroupsAt(InterfaceOf(p))

\* the walk returned from a configuration in which an association holds an
\* interface with an alternate setting, and a group holds both settings
C19_Witness ==
    /\ WalkDone
    /\ \E k \in 1..Len(walker.groups) :
           /\ walker.groups[k].association
           /\ \E p, q \in WalkedOfType(USB_DT_INTERFACE) :
                  /\ p # q
                  /\ bInterfaceNumber(walker.config, p)
                         = bInterfaceNumber(walker.config, q)
                  /\ k \in GroupsAt(p) \cap GroupsAt(q)

\* the copies of the groups from the k-th on, one after the other
RECURSIVE Concatenation(_, _)
Concatenation(groups, k) ==
    IF k > Len(groups) THEN << >>
    ELSE groups[k].copy \o Concatenation(groups, k + 1)

\* each group begins where the one before it ends
GroupsContiguous ==
    \A k \in 1..(Len(walker.groups) - 1) :
        walker.groups[k].from + walker.groups[k].length
            = walker.groups[k + 1].from

\* C20 (walker coverage): when the walk of a well-formed configuration has
\* returned, the spans of the groups are contiguous and do not overlap, and
\* their copies in the order of emission make up the configuration without
\* its 9-byte header.
C20_GroupsCoverConfiguration ==
    WalkDone =>
        /\ GroupsContiguous
        /\ \A p \in WalkedOffsets : Cardinality(GroupsAt(p)) = 1
        /\ Concatenation(walker.groups, 1)
               = SubSeq(walker.config, bLength(walker.config, 0) + 1,
                        wTotalLength(walker.config))

\* the first interface or association descriptor of the walked
\* configuration, or its end when it has none
FirstGroupStart ==
    LET starts == WalkedOfType(USB_DT_INTERFACE)
                      \cup WalkedOfType(USB_DT_INTERFACE_ASSOCIATION)
    IN IF starts = {} THEN wTotalLength(walker.config)
       ELSE CHOOSE p \in starts : \A q \in starts : p <= q

\* C20 as amended: the spans of the groups are contiguous and do not
\* overlap, and their copies in the order of emission make up the
\* configuration from its first interface or association descriptor to its
\* end; the descriptors before that one lie in no group.
C20_GroupsCoverFromFirstGroup ==
    WalkDone =>
        /\ GroupsContiguous
        /\ \A p \in WalkedOffsets :
               Cardinality(GroupsAt(p)) = IF p < FirstGroupStart THEN 0 ELSE 1
        /\ Concatenation(walker.groups, 1)
               = SubSeq(walker.config, FirstGroupStart + 1,
                        wTotalLength(walker.config))

\* the walk returned with two groups at least from a configuration that
\* begins with a descriptor of another type
C20_Witness ==
    /\ WalkDone
    /\ Len(walker.groups) >= 2
    /\ FirstGroupStart > NEXT_DESCRIPTOR(walker.config, 0)

\* the positions of a thread inside the walk of usb_device_add_interfaces
WalkPcs == {"walk", "add_interface", "recheck"}

\* C24 (the walk goes on after a failure): a walk returns only when header
\* has reached the end of the configuration, so that every group was
\* attempted; a failure recorded in result stays recorded while the walk
\* goes on, and the walk returns result.
C24_WalkAttemptsEveryGroup ==
    [][\A w \in Threads :
          /\ (thr[w].pc \in WalkPcs /\ thr'[w].pc = "idle") =>
                 /\ thr[w].pc = "walk"
                 /\ thr[w].header >= WalkEnd(w)
                 /\ thr'[w].ret = thr[w].result
          /\ (thr[w].pc \in WalkPcs /\ thr'[w].pc \in WalkPcs
                  /\ thr[w].result # "ZX_OK") =>
                 thr'[w].result # "ZX_OK"
      ]_vars

\* the child was published from an interface association descriptor
AssociationChild(intf) ==
    bDescriptorType(ConfigDesc(intf.config), intf.from)
        = USB_DT_INTERFACE_ASSOCIATION

\* C25 (an association marks its interfaces): while a child published from
\* an interface association of the current configuration is in children,
\* every interface number in its span has the status CHILD_DEVICE and that
\* child is the one child that spans it.
C25_AssociationInterfacesChildDevice ==
    \A k \in 1..Len(children) :
        (AssociationChild(children[k])
             /\ children[k].config = current_config_index) =>
            \A i \in SpanInterfaces(ConfigDesc(children[k].config),
                                    children[k].from, children[k].to) :
                /\ ReadStatus(i) = {CHILD_DEVICE}
                /\ ChildrenOf(i) = {k}

\* the number of places a request of a client is in: queued in the HCI
\* driver, on dev->completed_reqs, on the callback thread's temp_list
RelayPlaces(r) ==
    (IF r \in hci_queue THEN 1 ELSE 0)
        + Count(completed_reqs, r) + Count(temp_list, r)

\* the number of places a request of usb_device_control is in: queued in the
\* HCI driver, in dev->free_reqs, released
ControlPlaces(r) ==
    (IF r \in hci_ep0 THEN 1 ELSE 0)
        + (IF r \in free_reqs THEN 1 ELSE 0)
        + (IF r \in released THEN 1 ELSE 0)

\* C28 (a request is in one place): no request of a client is at once
\* queued in the HCI driver and on completed_reqs or temp_list, or twice on
\* a list; no request of usb_device_control is at once queued in the HCI
\* driver and pooled or released.
C28_RequestInOnePlace ==
    /\ \A r \in Requests : RelayPlaces(r) <= 1
    /\ \A r \in ControlRequests : ControlPlaces(r) <= 1

\* C29 (the walk terminates): the walk of a configuration never comes to a
\* descriptor at which it loops forever; a descriptor with bLength 0 ends
\* the walk.
C29_WalkTerminates == walker.pc # "loops_forever"

\* C30 (no group past the end): no group emitted by the walk has a span that
\* ends after wTotalLength, and a walk that met a descriptor straddling the
\* end does not return ZX_OK.
C30_GroupsWithinConfiguration ==
    /\ \A k \in 1..Len(walker.groups) :
           walker.groups[k].from + walker.groups[k].length
               <= wTotalLength(walker.config)
    /\ (walker.pc = "returned" /\ walker.header > wTotalLength(walker.config))
           => walker.result # "ZX_OK"

\* SET_CONFIGURATION was sent during creation
ConfigurationSent == adder.set_configuration # << >>

\* C21 as stated (configuration choice at creation): the chosen number is 1
\* unless the override table names the device, SET_CONFIGURATION is sent with
\* exactly that number, and the children are published from the
\* configuration whose bConfigurationValue is that number.
C21_ChosenNumberIsSent ==
    ConfigurationSent =>
        /\ adder.configuration = configuration(adder.device)
        /\ adder.set_configuration = <<adder.configuration>>
        /\ \A k \in 1..Len(adder.cur_config) :
               bConfigurationValue(adder.device.configs[adder.cur_config[k] + 1])
                   = adder.configuration

\* C21, amended: the chosen number is 1 unless the override table names the
\* device; it is the position of a configuration among those read from the
\* device, first is 1.  SET_CONFIGURATION is sent with the bConfigurationValue
\* of the configuration at that position, and the children are published
\* from that configuration.
C21_ChosenPositionIsSent ==
    ConfigurationSent =>
        /\ adder.configuration = configuration(adder.device)
        /\ adder.configuration \in 1..adder.device.bNumConfigurations
        /\ adder.set_configuration =
               <<bConfigurationValue(adder.device.configs[adder.configuration])>>
        /\ adder.cur_config \in {<< >>, <<adder.configuration - 1>>}

\* the Realtek dongle was created with children from its second
\* configuration, whose bConfigurationValue is not 2
C21_Witness ==
    /\ adder.pc = "returned"
    /\ adder.published
    /\ adder.configuration = 2
    /\ adder.cur_config = <<1>>
    /\ adder.set_configuration # <<2>>

\* C22 (error returns of creation free everything): when usb_device_add or
\* usb_composite_bind has returned without publishing the device, the device
\* record, configs, the configurations and interface_statuses are not
\* allocated and no callback thread runs.
C22_ErrorReturnFreesAll ==
    (adder.pc = "returned" /\ ~adder.published) =>
        /\ ~adder.dev
        /\ ~adder.configs
        /\ adder.config_descs = {}
        /\ ~adder.interface_statuses
        /\ adder.callback_thread # "running"

\* C23 (short read gives io): when a descriptor read of creation gave fewer
\* bytes than were asked for, the device is not published and the caller
\* gets ZX_ERR_IO.
C23_ShortReadReturnsIo ==
    (adder.pc = "returned" /\ adder.short_read) =>
        /\ ~adder.published
        /\ adder.ret = zx_status_t("ZX_ERR_IO")

ReplySize(call) ==
    IF call.op \in {"IOCTL_USB_GET_DEVICE_TYPE", "IOCTL_USB_GET_DEVICE_SPEED",
                    "IOCTL_USB_GET_CONFIG_DESC_SIZE", "IOCTL_USB_GET_DESCRIPTORS_SIZE",
                    "IOCTL_USB_GET_CONFIGURATION"}
    THEN sizeof_int
    ELSE IF call.op = "IOCTL_USB_GET_DEVICE_DESC" THEN sizeof_device_desc
    ELSE IF call.op = "IOCTL_USB_GET_CONFIG_DESC"
    THEN wTotalLength(ConfigDesc(config_index(call.in_buf)))
    ELSE IF call.op = "IOCTL_USB_GET_DESCRIPTORS"
    THEN wTotalLength(ConfigDesc(current_config_index))
    ELSE IF call.op = "IOCTL_USB_GET_STRING_DESC" THEN sizeof_get_string_desc_resp
    ELSE sizeof_uint64_t

\* the input of the call is one the operation accepts
ValidInput(call) ==
    /\ call.op \in {"IOCTL_USB_GET_CONFIG_DESC_SIZE", "IOCTL_USB_GET_CONFIG_DESC"} =>
           call.in_len = sizeof_int /\ get_config_desc(call.in_buf) # {}
    /\ call.op = "IOCTL_USB_GET_STRING_DESC" =>
           call.in_len = sizeof_get_string_desc_req

\* C26 (buffer too small): a call of an operation that writes output, with
\* valid input and an output buffer smaller than the reply, returns
\* ZX_ERR_BUFFER_TOO_SMALL and writes nothing to the buffer.
C26_SmallBufferRefused ==
    ( /\ ioctl.pc = "returned"
      /\ ioctl.op \in OutputOps
      /\ ValidInput(ioctl)
      /\ ioctl.out_len < ReplySize(ioctl) ) =>
        /\ ioctl.status = "ZX_ERR_BUFFER_TOO_SMALL"
        /\ ioctl.written = 0

\* the step calls the framework's device_remove on a child device
DeviceRemoveCalled ==
    \E id \in DOMAIN remove_count : remove_count'[id] > remove_count[id]

\* C32 (no call-out under interface_mutex): no thread holds interface_mutex
\* at a step that calls device_remove on a child.
C32_NoRemoveUnderMutex ==
    [][DeviceRemoveCalled => interface_mutex = NoThread]_vars

\* the step invokes a client's completion callback
CallbackInvoked == Len(cb_log') > Len(cb_log)

\* C33 (callbacks run outside the locks): at a step that invokes a client's
\* completion callback the callback thread holds neither callback_lock nor
\* interface_mutex; completed_reqs changes only at a step of a thread that
\* holds callback_lock, and the callback thread empties it into temp_list
\* under the lock and takes requests off temp_list only after the unlock.
C33_CallbackOutsideLocks ==
    [][ /\ CallbackInvoked =>
               /\ callback_lock # "callback_thread"
               /\ interface_mutex # "callback_thread"
               /\ cb_pc = "drain"
        /\ completed_reqs' # completed_reqs => callback_lock # NoThread
        /\ (temp_list' # temp_list /\ completed_reqs' # completed_reqs) =>
               /\ callback_lock = "callback_thread"
               /\ callback_lock' = NoThread
               /\ temp_list' = completed_reqs
               /\ completed_reqs' = << >>
      ]_vars

\* the callback thread has invoked a callback and is still draining
\* temp_list while the HCI thread holds callback_lock to push another
\* request
C33_Witness ==
    /\ cb_pc = "drain"
    /\ cb_log # << >>
    /\ callback_lock = "hci"
    /\ hci_pc # "idle"

\* the caller sits in the wait of usb-device.c:583 with the completion not
\* signalled, and the HCI holds no request whose completion would signal it
SecondWaitOrphaned ==
    /\ ctl_pc = "wait_forever"
    /\ ~completion
    /\ ctl_req \notin hci_ep0

\* C34 (control always returns): the caller of usb_device_control is never
\* left in the second, unbounded wait with the completion unsignalled once
\* the HCI has completed the request it was handed; no interleaving of the
\* HCI completion with the timeout, the reset of the completion and
\* usb_hci_cancel_all blocks the caller forever.
C34_SecondWaitReturns ==
    ~SecondWaitOrphaned

\* thread w leaves usb_device_set_interface through the call of
\* usb_interface_set_alt_setting on the child it selected
ForwardsAltSetting(w) ==
    thr[w].pc = "set_alt_setting" /\ thr'[w].pc = "idle"

\* C37 (set_interface forwards to a live child): when
\* usb_device_set_interface calls usb_interface_set_alt_setting, the child it
\* selected under interface_mutex is still a member of children; no claim,
\* usb_device_remove_interfaces or configuration switch has removed it in
\* between.
C37_ForwardedChildInChildren ==
    [][\A w \in Threads :
          ForwardsAltSetting(w) =>
              \E k \in 1..Len(children) : children[k].id \in thr[w].sel]_vars

\* the interface number the walk of thread w indexes interface_statuses with
WalkIndex(w) == bInterfaceNumber(WalkDesc(w), thr[w].header)

\* C35 (status indexes in range): every index with which
\* usb_device_add_interfaces (the read of the status and the re-check) and
\* usb_device_claim_interface read or write interface_statuses is below the
\* number of entries the array was allocated with.
C35_StatusIndexAllocated ==
    [][/\ \A w \in Threads :
              (usb_device_add_interfaces_read(w)
                   \/ usb_device_add_interfaces_recheck(w))
                  => WalkIndex(w) \in DOMAIN interface_statuses
       /\ \A interface_id \in AllInterfaceIds :
              usb_device_claim_interface(interface_id)
                  => interface_id \in DOMAIN interface_statuses
      ]_vars

\* the step by which the first call of usb_device_set_configuration made on
\* the device returns to its caller with a status that is not ZX_OK
FirstSwitchFails(w) ==
    /\ set_configs' = 1
    /\ set_configs = 1 => thr[w].pc # "idle"
    /\ thr'[w].pc = "idle"
    /\ thr'[w].ret # "ZX_OK"

\* C36 (a failed switch has no effect): when usb_device_set_configuration
\* returns a status other than ZX_OK, IOCTL_USB_GET_CONFIGURATION reports
\* the configuration it reported before the call; for the first call on a
\* device that is the configuration chosen at creation.
C36_FailedSwitchKeepsConfiguration ==
    [][\A w \in ConfigThreads :
          FirstSwitchFails(w) =>
              IOCTL_USB_GET_CONFIGURATION' =
                  bConfigurationValue(ConfigDesc(configuration(device_desc) - 1))
      ]_vars

\* ------------------------------------------------------------------------
\* Concurrent configuration switches
\* ------------------------------------------------------------------------

\* usb_device_set_configuration, lines 643-666, entered by any thread: the
\* function takes no lock before line 669, so a second caller passes these
\* lines while the first is still inside.  Each thread of Threads makes at
\* most one call.
usb_device_set_configuration_enter(w, config) ==
    /\ thr[w].pc = "idle"
    /\ set_configs < Cardinality(Threads)
    /\ ConfigsWithValue(config) # {}
    /\ set_configs' = set_configs + 1
    /\ current_config_index' = config_index(config)
    /\ thr' = [thr EXCEPT ![w] =
                  [IdleThread("none") EXCEPT !.pc = "remove_interfaces",
                                             !.config = config_index(config)]]
    /\ UNCHANGED <<interface_statuses, children, interface_mutex, next_child,
                   remove_count, claim_ok, claim_ret>>
    /\ UNCHANGED notRegistryVars

\* the registry of the device with every configuration and no override
InitSwitches ==
    /\ Init
    /\ device_desc.bNumConfigurations = Len(config_descs)
    /\ configuration(device_desc) - 1 = 0

\* the registry when two threads call usb_device_set_configuration and no
\* driver claims an interface
NextSwitches ==
    \/ \E w \in Threads : usb_device_add_interfaces_start(w)
    \/ \E w \in Threads : usb_device_add_interfaces_return(w)
    \/ \E w \in Threads : usb_device_add_interfaces_other(w)
    \/ \E w \in Threads, status \in AddStatuses :
           usb_device_add_interfaces_assoc(w, status)
    \/ \E w \in Threads : usb_device_add_interfaces_assoc_no_memory(w)
    \/ \E w \in Threads : usb_device_add_interfaces_read(w)
    \/ \E w \in Threads : usb_device_add_interfaces_intf_no_memory(w)
    \/ \E w \in Threads, status \in AddStatuses :
           usb_device_add_interfaces_add(w, status)
    \/ \E w \in Threads : usb_device_add_interfaces_recheck(w)
    \/ \E w \in Threads, config \in ConfigValues :
           usb_device_set_configuration_enter(w, config)
    \/ \E w \in Threads : usb_device_remove_interfaces_lock(w)
    \/ \E w \in Threads : usb_device_remove_interfaces_remove(w)
    \/ \E w \in Threads : usb_device_remove_interfaces_unlock(w)
    \/ \E w \in Threads : usb_device_set_configuration_memset(w)

SpecSwitches == InitSwitches /\ [][NextSwitches]_vars

\* the interface numbers the k-th child device of children owns
OwnedBy(k) ==
    SpanInterfaces(ConfigDesc(children[k].config), children[k].from,
                   children[k].to)

\* C38 (one child per interface): no two child devices in children own the
\* same interface number, whatever the interleaving of the walks of
\* usb_device_add_interfaces (those of two concurrent calls of
\* usb_device_set_configuration included) and of the retractions, for
\* interface associations and stand-alone interfaces alike.
C38_OneChildPerInterface ==
    \A k1, k2 \in 1..Len(children) :
        k1 # k2 => OwnedBy(k1) \cap OwnedBy(k2) = {}

\* the step writes interface_statuses or children
RegistryWritten ==
    interface_statuses' # interface_statuses \/ children' # children

\* the step is taken by the thread that holds interface_mutex, or takes the
\* free mutex for its own duration
MutexHeldByStep ==
    \/ interface_mutex = NoThread
    \/ \E w \in Threads :
           interface_mutex = w /\ usb_device_remove_interfaces_remove(w)

====
